---- MODULE Spec2Model ----
(***************************************************************************)
(* Model of the cnu_crawler notice pipeline (src/src/cnu_crawler):         *)
(* the notice store with its uniqueness constraint, the incremental        *)
(* first-page harvest of one (department, board) pair (crawl_board and     *)
(* _parse_notice_page_content), the per-department harvest task            *)
(* (crawl_department_notices) fanned out by run_pipeline, the college and  *)
(* department upserts of the discovery stages, the manual override file    *)
(* (spiders/manual_linker.py) and the shared HTTP client (core/fetcher.py).*)
(*                                                                         *)
(* Strings that the code compares or parses (post ids) are sequences of    *)
(* code points: 0..9 stand for the digits '0'..'9', every larger number    *)
(* for a character that sorts after the digits (a letter, Hangul), and -1  *)
(* for the sign '+', which sorts before them.                              *)
(*                                                                         *)
(* The specifications share the state: SpecBoard (one pair harvested       *)
(* again and again while its listing changes), SpecPipeline (whole runs of *)
(* run_pipeline with concurrent department tasks), SpecDiscovery (the      *)
(* discovery stages run after run), SpecSave (_save_colleges_to_db on any  *)
(* table and batch), SpecTemplate (_create_url_template_from_link on any   *)
(* link), SpecManual (process_manual_links_file on any file), SpecFetcher  *)
(* (fetches and shutdowns interleaved), SpecOrder (the stop test on any id *)
(* and cursor), SpecCascade (_parse_departments_from_normal_college on any *)
(* page), SpecKeyword (the template built from a found link and the        *)
(* listing URL made of it), SpecScoping (the discovery stages with commits *)
(* that fail) and SpecMain (scheduler.main with its flags and the ways out *)
(* of its try statement).  spiders/notices.py is taken as loaded: the name *)
(* Tuple in the annotation of line 81 is not imported there.               *)
(***************************************************************************)
EXTENDS Integers, Sequences, FiniteSets, Bags, TLC

VARIABLES
    colleges,     \* table colleges: sequence of rows, a row's id is its index
    departments,  \* table departments: sequence of rows, a row's id is its index
    notices,      \* table notices: bag of rows [dept_id, board, post_id]
    remote,       \* per listing URL: the board's first page and how it answers
    pages,        \* the pages the discovery stages read
    task,         \* per department id: the state of its harvest coroutine
    pipeline,     \* run_pipeline's position and the discovery bookkeeping
    requests,     \* every listing request issued: [url, page, kind]
    hist,         \* history: snapshots the properties compare against
    fetcher,      \* class Fetcher: the singleton, its pooled client, the coroutines using it
    linker,       \* process_manual_links_file: the override file and the position in it
    fncall        \* a function applied to an input: [fn, arg, out, done]; in SpecMain, where main stands

vars == <<colleges, departments, notices, remote, pages, task, pipeline, requests, hist,
          fetcher, linker, fncall>>

-----------------------------------------------------------------------------
(* Bounds *)

PageSize == 3      \* records shown on the first page of a listing
MaxDepts == 2      \* department rows (and harvest tasks) at most
MaxCycles == 2     \* runs of the pipeline
MaxFaults == 1     \* failed database reads in one run
MaxBatch == 2      \* colleges handed to one save
MaxCallers == 3    \* coroutines that use the fetcher at the same time
MaxLines == 3      \* lines of the manual override file
MaxParams == 3     \* query parameters of a listing link
MaxIdLen == 2      \* characters of a post id
MaxPage == 2       \* page numbers a listing URL is built for
MaxSelectors == 2  \* selectors of the cascade that match an anchor of the page
MaxAnchors == 2    \* anchors that one selector matches

-----------------------------------------------------------------------------
(* Post-id strings *)

IdSentinel == <<0>>                 \* "0"
Id9  == <<9>>                       \* "9"
Id10 == <<1, 0>>                    \* "10"
Id11 == <<1, 1>>                    \* "11"
IdLabel == <<10>>                   \* a non-numeric id or row label

\* str.isdigit(): non-empty and digits only
IsDigit(s) == Len(s) > 0 /\ \A i \in 1..Len(s) : s[i] \in 0..9

\* int(s) for a digit string
RECURSIVE ToIntAcc(_, _)
ToIntAcc(s, acc) == IF s = <<>> THEN acc ELSE ToIntAcc(Tail(s), acc * 10 + Head(s))
ToInt(s) == ToIntAcc(s, 0)

\* Python's (and SQLite's BINARY collation's) string order: by code point
RECURSIVE StrLess(_, _)
StrLess(a, b) ==
    IF a = <<>> THEN b # <<>>
    ELSE IF b = <<>> THEN FALSE
    ELSE IF Head(a) # Head(b) THEN Head(a) < Head(b)
    ELSE StrLess(Tail(a), Tail(b))
StrLeq(a, b) == a = b \/ StrLess(a, b)

\* (mutant) the stop test by string order alone
NotNewerStringOrder(post_id, last) == StrLeq(post_id, last) /\ post_id # <<>>

\* the stop test of the scan: post_id is "not newer than" the cursor
NotNewer(post_id, last) ==
    IF IsDigit(post_id) /\ IsDigit(last)
    THEN ToInt(post_id) <= ToInt(last)
    ELSE StrLeq(post_id, last) /\ post_id # <<>>

-----------------------------------------------------------------------------
(* The remote listing: one first page per listing URL.  A raw entry carries *)
(* what the two readers observe of it: the JSON item (is it an object, are  *)
(* id/title/url/date all present, does the date parse) and the HTML row     *)
(* (the text of td.no, whether the link carries an id, the date).           *)

Entry(id, date_ok, jdict, jfields, hno, hlink) ==
    [id |-> id, date_ok |-> date_ok, jdict |-> jdict, jfields |-> jfields,
     hno |-> hno, hlink |-> hlink]

Good(id)  == Entry(id, TRUE, TRUE, TRUE, "num", TRUE)
BadDate10 == Entry(Id10, FALSE, TRUE, TRUE, "num", TRUE)       \* unparseable date
NoId      == Entry(<<>>, TRUE, TRUE, FALSE, "label", FALSE)    \* no id anywhere
NonDict10 == Entry(Id10, TRUE, FALSE, TRUE, "num", TRUE)       \* JSON item is no object
Pinned11  == Entry(Id11, TRUE, TRUE, TRUE, "label", TRUE)      \* row labelled, id in link
Named     == Entry(IdLabel, TRUE, TRUE, TRUE, "label", FALSE)  \* non-numeric id

\* (Pinned11 is the entry with id 11: well-formed for both readers)
Entries == {Good(Id9), Good(Id10), Pinned11, BadDate10, NoId, NonDict10, Named}

\* how a listing URL answers the JSON read: with the list of posts, or with
\* an error (the request fails, the body is not JSON, or it holds no list of
\* posts: each ends in the except branch of line 132); and the HTML read:
\* with the page, or with a failed request
JsonModes == {"list", "error"}
HtmlModes == {"ok", "error"}

\* the item of the JSON list for a raw entry (p_item of the scan)
JsonItem(e) == [isdict |-> e.jdict, id |-> e.id, complete |-> e.jfields, date_ok |-> e.date_ok]

\* the row of the HTML table for a raw entry: ids_html[i], the id that the
\* regular expression finds in links_html[i] (<<>> if none), dates_html[i]
HtmlRow(e) == [no |-> IF e.hno = "num" THEN e.id ELSE IdLabel,
               link_id |-> IF e.hlink THEN e.id ELSE <<>>,
               date_ok |-> e.date_ok]

RECURSIVE MapSeq(_, _)
MapSeq(Op(_), s) == IF s = <<>> THEN <<>> ELSE <<Op(Head(s))>> \o MapSeq(Op, Tail(s))

\* the JSON branch of _parse_notice_page_content over the list current_page_posts,
\* from item i on, posts_data being acc
RECURSIVE ScanJson(_, _, _, _)
ScanJson(items, i, last, acc) ==
    IF i > Len(items) THEN [posts |-> acc, stop |-> FALSE, raised |-> FALSE]
    ELSE LET p == items[i] IN
         IF ~p.isdict THEN [posts |-> acc, stop |-> FALSE, raised |-> TRUE]
         ELSE IF ~p.complete \/ p.id = <<>> THEN ScanJson(items, i + 1, last, acc)
         ELSE IF NotNewer(p.id, last) THEN [posts |-> acc, stop |-> TRUE, raised |-> FALSE]
         ELSE IF ~p.date_ok THEN ScanJson(items, i + 1, last, acc)
         ELSE ScanJson(items, i + 1, last, Append(acc, p.id))

\* the HTML branch over rows 1..min_len, from row i on, posts_data being acc
RECURSIVE ScanHtml(_, _, _, _)
ScanHtml(rows, i, last, acc) ==
    IF i > Len(rows) THEN [posts |-> acc, stop |-> FALSE]
    ELSE LET r == rows[i]
             post_id == IF IsDigit(r.no) THEN r.no ELSE r.link_id
         IN  IF ~IsDigit(r.no) /\ r.link_id = <<>> THEN ScanHtml(rows, i + 1, last, acc)
             ELSE IF NotNewer(post_id, last) THEN [posts |-> acc, stop |-> TRUE]
             ELSE IF ~r.date_ok THEN ScanHtml(rows, i + 1, last, acc)
             ELSE ScanHtml(rows, i + 1, last, Append(acc, post_id))

-----------------------------------------------------------------------------
(* The notice table *)

Boards == {"academic", "undergrad", "grad", "grad_keyword_found"}

Row(d, b, id) == [dept_id |-> d, board |-> b, post_id |-> id]

\* post ids stored for a pair
IdsOf(tbl, d, b) == {r.post_id : r \in {x \in BagToSet(tbl) : x.dept_id = d /\ x.board = b}}

\* ORDER BY post_id DESC ... first(): the greatest id in string order
StrMax(S) == CHOOSE x \in S : \A y \in S : StrLeq(y, x)

\* last_post_id_db of crawl_board
LastPostId(tbl, d, b) == IF IdsOf(tbl, d, b) = {} THEN IdSentinel ELSE StrMax(IdsOf(tbl, d, b))

RECURSIVE SeqToBag(_)
SeqToBag(s) == IF s = <<>> THEN EmptyBag ELSE SetToBag({Head(s)}) (+) SeqToBag(Tail(s))

RowsOf(d, b, ids) == MapSeq(LAMBDA id : Row(d, b, id), ids)

\* uix_unique_notice
UniqueNotices(tbl) == \A r \in BagToSet(tbl) : CopiesIn(r, tbl) <= 1

\* (mutant) the table accepts every row: no uniqueness constraint
BulkInsertUnchecked(tbl, rows) == [ok |-> TRUE, tbl |-> tbl (+) SeqToBag(rows)]

\* (mutant) the table takes the rows one by one and leaves out those that
\* would repeat a stored row
RECURSIVE BulkInsertRowByRow(_, _)
BulkInsertRowByRow(tbl, rows) ==
    IF rows = <<>> THEN [ok |-> TRUE, tbl |-> tbl]
    ELSE IF BagIn(Head(rows), tbl)
         THEN [ok |-> FALSE, tbl |-> BulkInsertRowByRow(tbl, Tail(rows)).tbl]
         ELSE LET rest == BulkInsertRowByRow(tbl (+) SetToBag({Head(rows)}), Tail(rows))
              IN  [ok |-> rest.ok, tbl |-> rest.tbl]

\* bulk_insert_mappings + commit as the database executes it: either every
\* row is added, or the uniqueness constraint rejects the whole statement
BulkInsert(tbl, rows) ==
    LET added == tbl (+) SeqToBag(rows)
    IN  IF UniqueNotices(added) THEN [ok |-> TRUE, tbl |-> added]
        ELSE [ok |-> FALSE, tbl |-> tbl]

-----------------------------------------------------------------------------
(* Department rows and URL templates *)

Tpl(base) == [base |-> base, form |-> "{}"]
NoTpl == [base |-> "", form |-> ""]                       \* None
NoUrl == [base |-> "", page |-> 0]                        \* None

DeptRow(college_id, code, name, url, dept_type, ac, ug, gr, kw) ==
    [college_id |-> college_id, code |-> code, name |-> name, url |-> url,
     dept_type |-> dept_type, academic |-> ac, undergrad |-> ug, grad |-> gr, kw |-> kw]

\* the row add_hardcoded_ai_department writes (college_id is the id of the
\* placeholder college)
AiDept(college_id) ==
    DeptRow(college_id, "dept_cnu_ai_hardcoded", "AI", "ai_home", "ai_hardcoded",
            Tpl("ai_academic"), Tpl("ai_notice"), Tpl("ai_graduate"), NoTpl)

TemplateOf(obj, board) ==
    CASE board = "academic" -> obj.academic
      [] board = "undergrad" -> obj.undergrad
      [] board = "grad" -> obj.grad
      [] board = "grad_keyword_found" -> obj.kw

\* (mutant) the URL of the page after the one asked for
ListUrlNextPage(obj, board, page) ==
    IF board \notin Boards THEN NoUrl
    ELSE IF TemplateOf(obj, board) = NoTpl THEN NoUrl
    ELSE [base |-> TemplateOf(obj, board).base, page |-> page + 1]

\* get_notice_list_url: every placeholder form puts the page number in
ListUrl(obj, board, page) ==
    IF board \notin Boards THEN NoUrl
    ELSE IF TemplateOf(obj, board) = NoTpl THEN NoUrl
    ELSE [base |-> TemplateOf(obj, board).base, page |-> page]

AiUrls == {"ai_academic", "ai_notice", "ai_graduate"}
ListingUrls == AiUrls \cup {"sg_notice", "haksa_board", "gradkw_board"}

EmptyListing == [feed |-> <<>>, json |-> "list", html |-> "ok"]

-----------------------------------------------------------------------------
(* core/fetcher.py: the class attribute Fetcher._instance, the pooled       *)
(* RetryClient the instance holds, and the coroutines inside fetch_text,    *)
(* fetch_json or close_global_fetcher_client                                *)

Callers == 1..MaxCallers

\* the class as the import leaves it: no instance, no client.  built counts
\* the RetryClient objects constructed; fetched and shut record that a fetch
\* was called, and that a shutdown has completed and no client was built
\* since; caller is where each coroutine stands
NoFetcher ==
    [instance |-> FALSE, client |-> "none", built |-> 0, fetched |-> FALSE, shut |-> FALSE,
     caller |-> [c \in Callers |-> "idle"]]

\* (mutant) instance() that does not keep the object it builds
InstanceNoCache(f) == [f EXCEPT !.instance = TRUE, !.client = "open", !.built = @ + 1]

\* Fetcher.instance(): the first call runs __init__, which builds the client
Instance(f) ==
    IF f.instance THEN f
    ELSE [f EXCEPT !.instance = TRUE, !.client = "open", !.built = @ + 1]

\* fetch_text / fetch_json up to the request: the instance is obtained; its
\* get_text / get_json raises RuntimeError when the client is gone
Fetch(f) == [Instance(f) EXCEPT !.fetched = TRUE, !.shut = IF f.instance THEN @ ELSE FALSE]

-----------------------------------------------------------------------------
(* spiders/manual_linker.py: listing links and the template built from one. *)
(* A link is what urlparse makes of it: the text up to the query (scheme,   *)
(* host and path), the query as the sequence of its key=value pairs in the  *)
(* order written, and the fragment.  Keys and values are plain words, which *)
(* parse_qs and urlencode leave as they are.                                *)

Param(k, v) == [k |-> k, v |-> v]
Link(path, query, fragment) == [path |-> path, query |-> query, fragment |-> fragment]

\* common_page_params of line 38
CommonPageParams == {"page", "p", "pageNo", "pageNum", "pg", "start", "currentPage"}

\* parse_qs(query): a dict, keys in the order of their first occurrence,
\* each with the list of its values; a pair with a blank value is left out
\* (keep_blank_values is not set)
RECURSIVE ParseQs(_, _)
ParseQs(query, acc) ==
    IF query = <<>> THEN acc
    ELSE LET pr == Head(query)
             at == {i \in 1..Len(acc) : acc[i].k = pr.k}
         IN  IF pr.v = "" THEN ParseQs(Tail(query), acc)
             ELSE IF at = {} THEN ParseQs(Tail(query), Append(acc, [k |-> pr.k, vs |-> <<pr.v>>]))
             ELSE ParseQs(Tail(query), [acc EXCEPT ![CHOOSE i \in at : TRUE].vs = Append(@, pr.v)])

\* query_params.pop(p_key, None) for every common page parameter
PopPageParams(dict) == SelectSeq(dict, LAMBDA e : e.k \notin CommonPageParams)

RECURSIVE Join(_, _)
Join(strs, sep) ==
    IF strs = <<>> THEN ""
    ELSE IF Len(strs) = 1 THEN Head(strs)
    ELSE Head(strs) \o sep \o Join(Tail(strs), sep)

\* urlencode(dict, doseq=True): key=value for every value of every key
RECURSIVE KeyValues(_)
KeyValues(dict) ==
    IF dict = <<>> THEN <<>>
    ELSE [i \in 1..Len(Head(dict).vs) |-> Head(dict).k \o "=" \o Head(dict).vs[i]] \o KeyValues(Tail(dict))
UrlEncode(dict) == Join(KeyValues(dict), "&")

\* urlunparse with an empty fragment: the query follows a "?" when there is one
UrlUnparse(path, query_string) == IF query_string = "" THEN path ELSE path \o "?" \o query_string

\* _create_url_template_from_link: the text without a query holds no "?",
\* and one with a query does not end in "?"
CreateUrlTemplateFromLink(link) ==
    LET new_query_string == UrlEncode(PopPageParams(ParseQs(link.query, <<>>)))
        base_url_for_template == UrlUnparse(link.path, new_query_string)
    IN  IF new_query_string # "" THEN base_url_for_template \o "&page={page}"
        ELSE base_url_for_template \o "?page={page}"

\* A line of the override file after line.strip(): blank, a comment (it
\* starts with "#"), or data with n comma-separated parts, of which the
\* first three, stripped, are college, dept and url (NoLink: empty text)
NoLink == Link("", <<>>, "")
TxtLine(kind, n, college, dept, url) ==
    [kind |-> kind, n |-> n, college |-> college, dept |-> dept, url |-> url]

\* (mutant) the parser that takes a line of two or more parts
ParseTxtLineLoose(line) ==
    IF line.n >= 2 /\ line.college # ""
    THEN [ok |-> TRUE, college |-> line.college, dept |-> IF line.dept = "-" THEN "" ELSE line.dept,
          url |-> line.url]
    ELSE [ok |-> FALSE, college |-> "", dept |-> "", url |-> NoLink]

\* _parse_txt_line: three parts, a college name and a url; the dept "-"
\* becomes None ("" here: both are false at line 124)
ParseTxtLine(line) ==
    IF line.n = 3 /\ line.college # "" /\ line.url # NoLink
    THEN [ok |-> TRUE, college |-> line.college, dept |-> IF line.dept = "-" THEN "" ELSE line.dept,
          url |-> line.url]
    ELSE [ok |-> FALSE, college |-> "", dept |-> "", url |-> NoLink]

\* _generate_department_code_from_txt: hash(...) is an integer, subscripting
\* it raises TypeError before a code is built
GenerateDepartmentCodeFromTxt(college_code, dept_name, notice_url) == [raised |-> TRUE, code |-> ""]

\* the state of process_manual_links_file: whether the file exists and its
\* lines, the position of the loop, the department table as the open
\* session holds it, the counters, and per line read what was done with it
NoLinker ==
    [exists |-> FALSE, lines |-> <<>>, pc |-> "idle", idx |-> 0, sess |-> <<>>,
     created |-> 0, updated |-> 0, skipped |-> 0, trace |-> <<>>]

LinkPage3 == Link("https://law.x/notice", <<Param("page", "3")>>, "")
LinkPage7 == Link("https://law.x/notice", <<Param("page", "7")>>, "")

\* the line "Law College,-,https://law.x/notice?page=3"
LawRepLine == TxtLine("data", 3, "law_graduate_school", "-", LinkPage3)

\* no helper function is being applied
NoCall == [fn |-> "", arg |-> <<>>, out |-> <<>>, done |-> FALSE]

-----------------------------------------------------------------------------
(* Harvest tasks: the coroutine crawl_department_notices(dept) of one      *)
(* department, and inside it the calls of crawl_board.  errors holds the   *)
(* messages the running call of crawl_board has logged at level ERROR      *)

Tasks == 1..MaxDepts

IdleTask ==
    [pc |-> "idle", stage |-> "", board |-> "", via |-> "", obj |-> DeptRow(0, "", "", "", "", NoTpl, NoTpl, NoTpl, NoTpl),
     saved |-> NoTpl, cursor |-> <<>>, url |-> NoUrl, posts |-> <<>>, stop |-> FALSE,
     inserted |-> 0, parsed_any |-> FALSE, pre |-> EmptyBag, errors |-> {}]

Upd(t, r) == task' = [task EXCEPT ![t] = r]

\* crawl_board, lines 218-231: the cursor is read, then the listing URL of
\* page 1 is built; without a URL the call logs an error (line 228) and returns
CrawlBoardCursor(t) ==
    /\ task[t].pc = "cursor"
    /\ LET last == LastPostId(notices, t, task[t].board)
           url == ListUrl(task[t].obj, task[t].board, 1)
       IN  Upd(t, [task[t] EXCEPT !.cursor = last, !.url = url, !.posts = <<>>,
                                  !.stop = FALSE, !.inserted = 0, !.pre = notices,
                                  !.errors = IF url = NoUrl THEN {"no_list_url"} ELSE {},
                                  !.pc = IF url = NoUrl THEN "ret" ELSE "json"])
    /\ UNCHANGED <<fetcher, linker, fncall, colleges, departments, notices, remote, pages, pipeline, requests, hist>>

\* the query of lines 218-222 raises (the database cannot be read); nothing
\* in crawl_board catches it
CrawlBoardCursorRaises(t) ==
    /\ task[t].pc = "cursor"
    /\ pipeline.faults < MaxFaults
    /\ pipeline' = [pipeline EXCEPT !.faults = @ + 1]
    /\ Upd(t, [task[t] EXCEPT !.pc = "raised", !.posts = <<>>, !.inserted = 0, !.pre = notices,
                              !.errors = {}])
    /\ UNCHANGED <<fetcher, linker, fncall, colleges, departments, notices, remote, pages, requests, hist>>

\* _parse_notice_page_content, lines 91-143: the JSON read and its scan
ParseJson(t) ==
    /\ task[t].pc = "json"
    /\ requests' = requests \cup {[url |-> task[t].url.base, page |-> task[t].url.page, kind |-> "json"]}
    /\ LET page == remote[task[t].url.base]
           r == ScanJson(MapSeq(JsonItem, page.feed), 1, task[t].cursor, <<>>)
       IN  IF page.json = "list"
           THEN Upd(t, [task[t] EXCEPT !.posts = r.posts, !.stop = r.stop,
                                       !.pc = IF r.raised THEN "html" ELSE "persist"])
           ELSE Upd(t, [task[t] EXCEPT !.pc = "html"])
    /\ fetcher' = Fetch(fetcher)
    /\ UNCHANGED <<linker, fncall, colleges, departments, notices, remote, pages, pipeline, hist>>

\* lines 145-208: the HTML fallback; posts_data keeps what the JSON scan
\* had appended before it raised; a failed request is logged as an error
ParseHtml(t) ==
    /\ task[t].pc = "html"
    /\ requests' = requests \cup {[url |-> task[t].url.base, page |-> task[t].url.page, kind |-> "html"]}
    /\ LET page == remote[task[t].url.base]
           r == ScanHtml(MapSeq(HtmlRow, page.feed), 1, task[t].cursor, task[t].posts)
       IN  IF page.html = "ok"
           THEN Upd(t, [task[t] EXCEPT !.posts = r.posts, !.stop = r.stop, !.pc = "persist"])
           ELSE Upd(t, [task[t] EXCEPT !.pc = "persist", !.errors = @ \cup {"html_fetch"}])
    /\ fetcher' = Fetch(fetcher)
    /\ UNCHANGED <<linker, fncall, colleges, departments, notices, remote, pages, pipeline, hist>>

\* crawl_board, lines 244-258: one bulk insert of the batch, its failure is
\* caught and logged
Persist(t) ==
    /\ task[t].pc = "persist"
    /\ LET res == BulkInsert(notices, RowsOf(t, task[t].board, task[t].posts))
       IN  IF task[t].posts = <<>>
           THEN /\ notices' = notices
                /\ Upd(t, [task[t] EXCEPT !.pc = "ret"])
           ELSE /\ notices' = res.tbl
                /\ Upd(t, [task[t] EXCEPT !.pc = "ret",
                                          !.inserted = IF res.ok THEN Len(task[t].posts) ELSE 0,
                                          !.errors = IF res.ok THEN @ ELSE @ \cup {"db_save"}])
    /\ UNCHANGED <<fetcher, linker, fncall, colleges, departments, remote, pages, pipeline, requests, hist>>

-----------------------------------------------------------------------------
(* Discovery: the college table and the department table                   *)

CollegeRow(code, name, url, college_type) ==
    [code |-> code, name |-> name, url |-> url, college_type |-> college_type]

MiscCollege == CollegeRow("college_misc_for_ai", "misc", "#", "placeholder")
GradMainCollege == CollegeRow("grad_school_main_unit", "graduate_school_all", "grad_info", "grad_page_college")

\* position of the row with this code, 0 if none (filter_by(code=...).one_or_none())
CollegeIndex(tbl, code) ==
    IF \E i \in 1..Len(tbl) : tbl[i].code = code
    THEN CHOOSE i \in 1..Len(tbl) : tbl[i].code = code
    ELSE 0

\* the loop of _save_colleges_to_db over colleges_data inside one session:
\* the table as the session sees it, the counts of added and updated rows
RECURSIVE SaveLoop(_, _, _, _)
SaveLoop(tbl, data, added, updated) ==
    IF data = <<>> THEN [tbl |-> tbl, added |-> added, updated |-> updated]
    ELSE LET c == Head(data)
             i == CollegeIndex(tbl, c.code)
         IN  IF i = 0 THEN SaveLoop(Append(tbl, c), Tail(data), added + 1, updated)
             ELSE IF tbl[i] # c
                  THEN SaveLoop([tbl EXCEPT ![i] = c], Tail(data), added, updated + 1)
                  ELSE SaveLoop(tbl, Tail(data), added, updated)

\* (mutant) the save that does not look the code up and always adds a row
RECURSIVE SaveCollegesNoLookup(_, _)
SaveCollegesNoLookup(tbl, data) ==
    IF data = <<>> THEN [tbl |-> tbl, added |-> 0, updated |-> 0, commits |-> 0]
    ELSE LET rest == SaveCollegesNoLookup(Append(tbl, Head(data)), Tail(data))
         IN  [rest EXCEPT !.added = @ + 1, !.commits = 1]

\* _save_colleges_to_db: commit when a row was added or changed
SaveColleges(tbl, data) ==
    LET r == SaveLoop(tbl, data, 0, 0)
    IN  IF r.added > 0 \/ r.updated > 0
        THEN [tbl |-> r.tbl, added |-> r.added, updated |-> r.updated, commits |-> 1]
        ELSE [tbl |-> tbl, added |-> 0, updated |-> 0, commits |-> 0]

\* _generate_college_code: hash(name) is an integer, subscripting it raises
\* TypeError before a code is built
GenerateCollegeCode(name, prefix) == [raised |-> TRUE, code |-> ""]

\* _generate_department_code: the same subscript of hash(...)
GenerateDepartmentCode(college_code, dept_name, url) == [raised |-> TRUE, code |-> ""]

GradTypes == {"grad_school_dept", "plus_special_grad_dept", "plus_general_grad_dept"}

\* "대학원" in name, over the names of the model
HasGradWord(name) == name \in {"law_graduate_school", "graduate_school_all"}

\* A page of a college or department site: whether it can be fetched, and
\* the target of its first anchor whose text contains a notice keyword
\* ("공지사항", "notice", "공지"), an academic keyword ("학사안내", ...) and a
\* graduate keyword ("대학원 게시판", ...); "" where there is no such anchor
SitePage(ok, notice, haksa, gradkw) == [ok |-> ok, notice |-> notice, haksa |-> haksa, gradkw |-> gradkw]

PageError  == SitePage(FALSE, "", "", "")
PagePlain  == SitePage(TRUE, "", "", "")
PageNotice == SitePage(TRUE, "sg_notice", "", "")
PageHaksa  == SitePage(TRUE, "", "haksa_board", "")
PageGradKw == SitePage(TRUE, "sg_notice", "", "gradkw_board")

SitePages == {PageError, PagePlain, PageNotice, PageHaksa, PageGradKw}

\* _extract_notice_url_template_from_page with the notice keywords
ExtractTemplate(page) == IF page.ok /\ page.notice # "" THEN Tpl(page.notice) ELSE NoTpl

\* _create_dept_for_plus_grad_school: the college itself as one department
DeptForPlusGradSchool(college, cid, page) ==
    DeptRow(cid, college.code \o "_main_dept", college.name, college.url, "plus_special_grad_dept",
            ExtractTemplate(page), ExtractTemplate(page), ExtractTemplate(page), NoTpl)

\* the candidates crawl_departments collects for a college (depts_to_save):
\* the two parsers that build a code end in TypeError, which is caught
DeptsToSave(college, cid, page) ==
    IF \/ college.college_type \in {"grad_page_college", "normal_college"}
       \/ college.college_type = "plus_general_grad" /\ college.url = "grad_info"
    THEN (IF page.ok /\ ~GenerateDepartmentCode(college.code, "", "").raised
          THEN <<DeptRow(cid, GenerateDepartmentCode(college.code, "", "").code, "", "", "normal_dept", NoTpl, NoTpl, NoTpl, NoTpl)>>
          ELSE <<>>)
    ELSE IF college.college_type \in {"plus_special_grad", "plus_general_grad"}
    THEN <<DeptForPlusGradSchool(college, cid, page)>>
    ELSE <<>>

DeptIndex(tbl, college_id, code) ==
    IF \E i \in 1..Len(tbl) : tbl[i].college_id = college_id /\ tbl[i].code = code
    THEN CHOOSE i \in 1..Len(tbl) : tbl[i].college_id = college_id /\ tbl[i].code = code
    ELSE 0

\* (mutant) the department upsert that takes every found row as changed
RECURSIVE UpsertLoopAlwaysChanged(_, _, _, _)
UpsertLoopAlwaysChanged(tbl, data, added, updated) ==
    IF data = <<>> THEN [tbl |-> tbl, added |-> added, updated |-> updated]
    ELSE LET d == Head(data)
             i == DeptIndex(tbl, d.college_id, d.code)
         IN  IF i = 0 THEN UpsertLoopAlwaysChanged(Append(tbl, d), Tail(data), added + 1, updated)
             ELSE UpsertLoopAlwaysChanged([tbl EXCEPT ![i] = d], Tail(data), added, updated + 1)

\* crawl_departments, lines 336-368: the upsert loop inside one session
RECURSIVE UpsertLoop(_, _, _, _)
UpsertLoop(tbl, data, added, updated) ==
    IF data = <<>> THEN [tbl |-> tbl, added |-> added, updated |-> updated]
    ELSE LET d == Head(data)
             i == DeptIndex(tbl, d.college_id, d.code)
         IN  IF i = 0 THEN UpsertLoop(Append(tbl, d), Tail(data), added + 1, updated)
             ELSE IF tbl[i] # d
                  THEN UpsertLoop([tbl EXCEPT ![i] = d], Tail(data), added, updated + 1)
                  ELSE UpsertLoop(tbl, Tail(data), added, updated)

\* crawl_departments, lines 317-378: nothing to save returns early; commit
\* when a row was added or changed
SaveDepartments(tbl, data) ==
    LET r == UpsertLoop(tbl, data, 0, 0)
    IN  IF data # <<>> /\ (r.added > 0 \/ r.updated > 0)
        THEN [tbl |-> r.tbl, added |-> r.added, updated |-> r.updated, commits |-> 1]
        ELSE [tbl |-> tbl, added |-> 0, updated |-> 0, commits |-> 0]

-----------------------------------------------------------------------------
(* run_pipeline: the discovery stages in sequence, then one harvest task   *)
(* per department under asyncio.gather                                     *)

\* pipeline: where run_pipeline is, the number of the run, the position of
\* the loop over colleges, the database faults injected in this run
IdlePipeline == [pc |-> "idle", cycle |-> 0, idx |-> 0, faults |-> 0]

\* history kept for the properties: ran (a harvest of the pair has completed
\* since the listing last changed), harvested / raised (the pairs whose
\* crawl_board returned / raised in this run), commits (commits issued by
\* the college and department saves of this run), prev and fresh (the two
\* tables as the previous discovery left them, no page changed since),
\* pre, data, saved (the last call of the college save)
NoHist ==
    [ran |-> FALSE, harvested |-> {}, raised |-> {}, commits |-> 0,
     prev |-> [colleges |-> <<>>, departments |-> <<>>], fresh |-> FALSE,
     pre |-> <<>>, data |-> <<>>, saved |-> FALSE]

\* the remote pages discovery reads: the two menus of the root page, the
\* graduate school page, the home page of the law school
RootModes == {"links", "empty", "error"}
GradModes == {"nomatch", "match", "error"}
NoPages == [root |-> "error", plusgrad |-> "error", grad |-> "error", law |-> PageError]

PageOf(url) ==
    IF url = "law_home" THEN pages.law
    ELSE IF url = "grad_info" THEN SitePage(pages.grad # "error", "", "", "")
    ELSE PageError

Terminal == {"idle", "done", "failed", "cancelled"}
Settled == \A t \in Tasks : task[t].pc \in Terminal

\* a run of the pipeline starts (python -m ... --run): a new process, the
\* class attributes of Fetcher are as the import leaves them
StartCycle ==
    /\ pipeline.pc \in {"idle", "done", "failed"}
    /\ Settled
    /\ pipeline.cycle < MaxCycles
    /\ pipeline' = [pc |-> "normal", cycle |-> pipeline.cycle + 1, idx |-> 0, faults |-> 0]
    /\ task' = [t \in Tasks |-> IdleTask]
    /\ requests' = {}
    /\ hist' = [hist EXCEPT !.harvested = {}, !.raised = {}, !.commits = 0]
    /\ fetcher' = NoFetcher
    /\ UNCHANGED <<linker, fncall, colleges, departments, notices, remote, pages>>

\* discover_plus_normal_colleges: a menu with links ends in the TypeError of
\* the code generator, which is caught before the save
DiscoverPlusNormal ==
    /\ pipeline.pc = "normal"
    /\ LET gen == GenerateCollegeCode("college", "plus_normal")
           data == IF pages.root = "links" /\ ~gen.raised
                   THEN <<CollegeRow(gen.code, "college", "college_home", "normal_college")>>
                   ELSE <<>>
           r == SaveColleges(colleges, data)
       IN  /\ colleges' = r.tbl
           /\ hist' = [hist EXCEPT !.commits = @ + r.commits]
    /\ pipeline' = [pipeline EXCEPT !.pc = "gradpage"]
    /\ UNCHANGED <<fetcher, linker, fncall, departments, notices, remote, pages, task, requests>>

\* discover_grad_page_colleges_and_depts: a heading that qualifies ends in
\* the same TypeError; with no qualifying heading the whole graduate school
\* is saved as one college
DiscoverGradPage ==
    /\ pipeline.pc = "gradpage"
    /\ LET gen == GenerateCollegeCode("heading", "gradpage")
           data == IF pages.grad = "nomatch" THEN <<GradMainCollege>>
                   ELSE IF pages.grad = "match" /\ ~gen.raised
                   THEN <<CollegeRow(gen.code, "heading", "grad_info", "grad_page_college")>>
                   ELSE <<>>
           r == SaveColleges(colleges, data)
       IN  /\ colleges' = r.tbl
           /\ hist' = [hist EXCEPT !.commits = @ + r.commits]
    /\ pipeline' = [pipeline EXCEPT !.pc = "plusgrad"]
    /\ fetcher' = Fetch(fetcher)
    /\ UNCHANGED <<linker, fncall, departments, notices, remote, pages, task, requests>>

\* discover_plus_all_graduate_schools
DiscoverPlusGrad ==
    /\ pipeline.pc = "plusgrad"
    /\ LET gen == GenerateCollegeCode("law_graduate_school", "plus_spec_grad")
           data == IF pages.plusgrad = "links" /\ ~gen.raised
                   THEN <<CollegeRow(gen.code, "law_graduate_school", "law_home", "plus_special_grad")>>
                   ELSE <<>>
           r == SaveColleges(colleges, data)
       IN  /\ colleges' = r.tbl
           /\ hist' = [hist EXCEPT !.commits = @ + r.commits]
    /\ pipeline' = [pipeline EXCEPT !.pc = "ai"]
    /\ UNCHANGED <<fetcher, linker, fncall, departments, notices, remote, pages, task, requests>>

\* add_hardcoded_ai_department: the placeholder college is created when it
\* is missing, the department is added or its listed fields are rewritten
AddHardcodedAi ==
    /\ pipeline.pc = "ai"
    /\ LET tbl == IF CollegeIndex(colleges, MiscCollege.code) = 0
                  THEN Append(colleges, MiscCollege) ELSE colleges
           cid == CollegeIndex(tbl, MiscCollege.code)
           j == DeptIndex(departments, cid, AiDept(cid).code)
       IN  /\ colleges' = tbl
           /\ departments' = IF j = 0 THEN Append(departments, AiDept(cid))
                             ELSE [departments EXCEPT ![j] = [AiDept(cid) EXCEPT !.kw = departments[j].kw]]
    /\ pipeline' = [pipeline EXCEPT !.pc = "depts", !.idx = 1]
    /\ UNCHANGED <<fetcher, linker, fncall, notices, remote, pages, task, requests, hist>>

\* the kinds of college whose page crawl_departments fetches
FetchedTypes == {"grad_page_college", "normal_college", "plus_general_grad", "plus_special_grad"}

\* crawl_departments(college) for the next college of the loaded list
CrawlDepartments ==
    /\ pipeline.pc = "depts"
    /\ pipeline.idx <= Len(colleges)
    /\ LET c == colleges[pipeline.idx]
           r == SaveDepartments(departments, DeptsToSave(c, pipeline.idx, PageOf(c.url)))
       IN  /\ departments' = r.tbl
           /\ hist' = [hist EXCEPT !.commits = @ + r.commits]
    /\ pipeline' = [pipeline EXCEPT !.idx = @ + 1]
    /\ fetcher' = IF colleges[pipeline.idx].college_type \in FetchedTypes THEN Fetch(fetcher) ELSE fetcher
    /\ UNCHANGED <<linker, fncall, colleges, notices, remote, pages, task, requests>>

\* (mutant) the error of the commit leaves crawl_departments and ends the run
AfterCommitErrorPropagates(p) == [p EXCEPT !.pc = "failed", !.faults = @ + 1]

\* crawl_departments, lines 374-376: the error of the commit is caught and
\* logged, the function returns and the loop of run_pipeline goes on
AfterCommitError(p) == [p EXCEPT !.idx = @ + 1, !.faults = @ + 1]

\* crawl_departments(college) where sess.commit() of line 372 raises: the
\* session is rolled back, the rows it added or changed are not stored
CrawlDepartmentsCommitError ==
    /\ pipeline.pc = "depts"
    /\ pipeline.idx <= Len(colleges)
    /\ pipeline.faults < MaxFaults
    /\ LET c == colleges[pipeline.idx]
       IN  SaveDepartments(departments, DeptsToSave(c, pipeline.idx, PageOf(c.url))).commits = 1
    /\ pipeline' = AfterCommitError(pipeline)
    /\ fetcher' = IF colleges[pipeline.idx].college_type \in FetchedTypes THEN Fetch(fetcher) ELSE fetcher
    /\ UNCHANGED <<linker, fncall, colleges, departments, notices, remote, pages, task, requests, hist>>

\* (mutant) the gather starts while the loop over the colleges is running
DiscoveryOverEarly == pipeline.pc = "depts"

\* run_pipeline, lines 114-127: the loop over the colleges has ended
DiscoveryOver == pipeline.pc = "depts" /\ pipeline.idx > Len(colleges)

\* run_pipeline, lines 130-139: the departments are loaded and one
\* crawl_department_notices coroutine per department is gathered
StartGather ==
    /\ DiscoveryOver
    /\ Len(departments) <= MaxDepts
    /\ pipeline' = [pipeline EXCEPT !.pc = "notices"]
    /\ task' = [t \in Tasks |-> IF t <= Len(departments)
                                THEN [IdleTask EXCEPT !.pc = "stage", !.stage = "academic", !.obj = departments[t]]
                                ELSE IdleTask]
    /\ UNCHANGED <<fetcher, linker, fncall, colleges, departments, notices, remote, pages, requests, hist>>

SetTemplate(obj, board, tpl) ==
    CASE board = "academic" -> [obj EXCEPT !.academic = tpl]
      [] board = "undergrad" -> [obj EXCEPT !.undergrad = tpl]
      [] board = "grad" -> [obj EXCEPT !.grad = tpl]
      [] board = "grad_keyword_found" -> [obj EXCEPT !.kw = tpl]

\* crawl_department_notices, lines 399-455: the next stage of the fixed
\* order is entered; it calls crawl_board, looks for a board by keyword, or
\* is passed over
StageStep(t) ==
    /\ task[t].pc = "stage"
    /\ LET s == task[t]
           o == s.obj
           gradlike == o.dept_type \in GradTypes
           call(b, next) == [s EXCEPT !.pc = "cursor", !.board = b, !.via = "direct", !.stage = next]
           find(b, next) == [s EXCEPT !.pc = "kwfetch", !.board = b, !.via = "kw", !.stage = next]
           pass(next) == [s EXCEPT !.stage = next]
       IN  Upd(t, CASE s.stage = "academic" ->
                         IF o.academic # NoTpl THEN call("academic", "undergrad")
                         ELSE find("academic", "undergrad")
                    [] s.stage = "undergrad" ->
                         IF ~(~s.parsed_any \/ o.undergrad # NoTpl \/ o.grad # NoTpl) THEN pass("keyword")
                         ELSE IF o.undergrad # NoTpl \/ ~gradlike THEN call("undergrad", "grad")
                         ELSE pass("grad")
                    [] s.stage = "grad" ->
                         IF o.grad # NoTpl \/ gradlike \/ HasGradWord(o.name) THEN call("grad", "keyword")
                         ELSE pass("keyword")
                    [] s.stage = "keyword" ->
                         IF gradlike \/ HasGradWord(o.name) \/ o.kw # NoTpl
                         THEN (IF o.kw # NoTpl THEN call("grad_keyword_found", "end")
                               ELSE find("grad_keyword_found", "end"))
                         ELSE pass("end")
                    [] s.stage = "end" -> [s EXCEPT !.pc = "done"])
    /\ UNCHANGED <<fetcher, linker, fncall, colleges, departments, notices, remote, pages, pipeline, requests, hist>>

\* find_and_attempt_parse_board_by_keyword, lines 268-332: the department
\* page is fetched and searched; a found link becomes the board's template
\* on the loaded object, the stored one is set aside
KwFetch(t) ==
    /\ task[t].pc = "kwfetch"
    /\ LET s == task[t]
           page == PageOf(s.obj.url)
           link == IF s.board = "academic" THEN page.haksa ELSE page.gradkw
       IN  IF ~page.ok \/ link = ""
           THEN Upd(t, [s EXCEPT !.pc = "stage"])
           ELSE Upd(t, [s EXCEPT !.pc = "cursor", !.saved = TemplateOf(s.obj, s.board),
                                 !.obj = SetTemplate(s.obj, s.board, Tpl(link))])
    /\ fetcher' = Fetch(fetcher)
    /\ UNCHANGED <<linker, fncall, colleges, departments, notices, remote, pages, pipeline, requests, hist>>

\* the call of crawl_board is over.  Returned: a direct call counts as an
\* attempt, a keyword call restores the template and reports True.  Raised:
\* a direct call lets the exception leave crawl_department_notices, the
\* keyword finder catches it at line 349 and reports False, the template
\* stays as it was set
TaskReturn(t) ==
    /\ task[t].pc \in {"ret", "raised"}
    /\ LET s == task[t]
           r == [s EXCEPT !.cursor = <<>>, !.url = NoUrl, !.posts = <<>>, !.stop = FALSE,
                          !.inserted = 0, !.pre = EmptyBag, !.saved = NoTpl, !.errors = {}]
       IN  IF s.pc = "ret"
           THEN /\ hist' = [hist EXCEPT !.harvested = @ \cup {<<t, s.board>>}]
                /\ Upd(t, [r EXCEPT !.pc = "stage",
                                    !.parsed_any = (s.board \in {"academic", "undergrad", "grad"}) \/ @,
                                    !.obj = IF s.via = "kw" THEN SetTemplate(s.obj, s.board, s.saved) ELSE @])
           ELSE /\ hist' = [hist EXCEPT !.raised = @ \cup {<<t, s.board>>}]
                /\ Upd(t, [r EXCEPT !.pc = IF s.via = "kw" THEN "stage" ELSE "failed"])
    /\ UNCHANGED <<fetcher, linker, fncall, colleges, departments, notices, remote, pages, pipeline, requests>>

\* asyncio.gather without return_exceptions: the first exception of a task
\* is raised in run_pipeline, which ends without the export
GatherRaises ==
    /\ pipeline.pc = "notices"
    /\ \E t \in Tasks : task[t].pc = "failed"
    /\ pipeline' = [pipeline EXCEPT !.pc = "failed"]
    /\ UNCHANGED <<fetcher, linker, fncall, colleges, departments, notices, remote, pages, task, requests, hist>>

\* every task has returned: dump_daily_csv, the run is complete
GatherDone ==
    /\ pipeline.pc = "notices"
    /\ \A t \in Tasks : task[t].pc \in {"idle", "done"}
    /\ pipeline' = [pipeline EXCEPT !.pc = "done"]
    /\ UNCHANGED <<fetcher, linker, fncall, colleges, departments, notices, remote, pages, task, requests, hist>>

\* main returns after the failure and the event loop is closed: a task that
\* is still pending is cancelled where it stands
Cancel(t) ==
    /\ pipeline.pc = "failed"
    /\ task[t].pc \notin Terminal
    /\ Upd(t, [task[t] EXCEPT !.pc = "cancelled"])
    /\ UNCHANGED <<fetcher, linker, fncall, colleges, departments, notices, remote, pages, pipeline, requests, hist>>

\* rows that an earlier run of the program left in the database file
LawCollege == CollegeRow("plus_spec_grad_law", "law_graduate_school", "law_home", "plus_special_grad")

\* what the notice boards serve during the runs; the override file of the
\* data directory holds the line of the law school
ListingOld == [feed |-> <<Good(Id10), Good(Id9)>>, json |-> "list", html |-> "ok"]
ListingPinned == [feed |-> <<Pinned11, Good(Id11)>>, json |-> "error", html |-> "ok"]
ListingDown == [feed |-> <<Good(Id9)>>, json |-> "error", html |-> "error"]

InitPipeline ==
    /\ colleges \in {<<>>, <<LawCollege>>}
    /\ departments = <<>>
    /\ notices = EmptyBag
    /\ \E a \in {ListingOld, ListingDown} : \E b \in {ListingOld, ListingPinned} :
          remote = [u \in ListingUrls |-> IF u \in AiUrls THEN a ELSE b]
    /\ \E p \in {PageNotice, PageHaksa, PageGradKw} :
          pages = [root |-> "links", plusgrad |-> "links", grad |-> "nomatch", law |-> p]
    /\ task = [t \in Tasks |-> IdleTask]
    /\ pipeline = IdlePipeline
    /\ requests = {}
    /\ hist = NoHist
    /\ fetcher = NoFetcher
    /\ linker = [NoLinker EXCEPT !.exists = TRUE, !.lines = <<LawRepLine>>]
    /\ fncall = NoCall

NextPipeline ==
    \/ StartCycle
    \/ DiscoverPlusNormal
    \/ DiscoverGradPage
    \/ DiscoverPlusGrad
    \/ AddHardcodedAi
    \/ CrawlDepartments
    \/ StartGather
    \/ GatherRaises
    \/ GatherDone
    \/ \E t \in Tasks :
          \/ StageStep(t)
          \/ KwFetch(t)
          \/ CrawlBoardCursor(t)
          \/ CrawlBoardCursorRaises(t)
          \/ ParseJson(t)
          \/ ParseHtml(t)
          \/ Persist(t)
          \/ TaskReturn(t)
          \/ Cancel(t)

SpecPipeline == InitPipeline /\ [][NextPipeline]_vars

-----------------------------------------------------------------------------
(* The discovery stages alone, run after run, the remote pages changing    *)
(* only between runs                                                       *)

NormalCollege == CollegeRow("plus_normal_eng", "college", "college_home", "normal_college")

\* the law school's department as an earlier run and a manual edit left it
StaleLawDept ==
    DeptRow(1, "plus_spec_grad_law_main_dept", "law_graduate_school", "law_home",
            "plus_special_grad_dept", Tpl("old_notice"), NoTpl, NoTpl, Tpl("gradkw_board"))

InitDiscovery ==
    /\ \E seed \in {<<<<>>, <<>>>>, <<<<LawCollege>>, <<>>>>, <<<<LawCollege>>, <<StaleLawDept>>>>,
                    <<<<NormalCollege>>, <<>>>>} :
          colleges = seed[1] /\ departments = seed[2]
    /\ notices = EmptyBag
    /\ remote = [u \in ListingUrls |-> EmptyListing]
    /\ pages \in [root : RootModes, plusgrad : RootModes, grad : GradModes, law : SitePages]
    /\ task = [t \in Tasks |-> IdleTask]
    /\ pipeline = IdlePipeline
    /\ requests = {}
    /\ hist = NoHist
    /\ fetcher = NoFetcher
    /\ linker = NoLinker
    /\ fncall = NoCall

\* a remote page changes while no run is in progress
PageChange(p) ==
    /\ pipeline.pc \in {"idle", "done"}
    /\ p # pages
    /\ \E f \in DOMAIN pages : \A g \in DOMAIN pages \ {f} : p[g] = pages[g]
    /\ pages' = p
    /\ hist' = [hist EXCEPT !.fresh = FALSE]
    /\ UNCHANGED <<fetcher, linker, fncall, colleges, departments, notices, remote, task, pipeline, requests>>

\* the last crawl_departments of the run has returned
DiscoveryEnd ==
    /\ DiscoveryOver
    /\ pipeline' = [pipeline EXCEPT !.pc = "done"]
    /\ hist' = [hist EXCEPT !.prev = [colleges |-> colleges, departments |-> departments], !.fresh = TRUE]
    /\ UNCHANGED <<fetcher, linker, fncall, colleges, departments, notices, remote, pages, task, requests>>

NextDiscovery ==
    \/ StartCycle
    \/ DiscoverPlusNormal
    \/ DiscoverGradPage
    \/ DiscoverPlusGrad
    \/ AddHardcodedAi
    \/ CrawlDepartments
    \/ DiscoveryEnd
    \/ \E p \in [root : RootModes, plusgrad : RootModes, grad : GradModes, law : SitePages] : PageChange(p)

SpecDiscovery == InitDiscovery /\ [][NextDiscovery]_vars

\* the discovery stages with commits of the department save that fail
NextScoping ==
    \/ NextDiscovery
    \/ CrawlDepartmentsCommitError

SpecScoping == InitDiscovery /\ [][NextScoping]_vars

-----------------------------------------------------------------------------
(* _save_colleges_to_db applied to a table and a batch of discovered rows   *)

SaveCodes == {"grad_school_main_unit", "plus_spec_grad_law"}

\* per code: a row, and the row with another name, another url, another kind
CollegeInputs ==
    UNION {{CollegeRow(c, "name", "url", "normal_college"),
            CollegeRow(c, "renamed", "url", "normal_college"),
            CollegeRow(c, "name", "moved", "normal_college"),
            CollegeRow(c, "name", "url", "plus_special_grad")} : c \in SaveCodes}

\* the tables over these rows: the code is unique (models.py, College.code)
CollegeTables ==
    {<<>>} \cup {<<a>> : a \in CollegeInputs}
           \cup {t \in CollegeInputs \X CollegeInputs : t[1].code # t[2].code}

RECURSIVE SeqsUpTo(_, _)
SeqsUpTo(S, n) ==
    IF n = 0 THEN {<<>>}
    ELSE SeqsUpTo(S, n - 1) \cup {Append(q, x) : q \in {r \in SeqsUpTo(S, n - 1) : Len(r) = n - 1}, x \in S}

InitSave ==
    /\ colleges \in CollegeTables
    /\ departments = <<>>
    /\ notices = EmptyBag
    /\ remote = [u \in ListingUrls |-> EmptyListing]
    /\ pages = NoPages
    /\ task = [t \in Tasks |-> IdleTask]
    /\ pipeline = IdlePipeline
    /\ requests = {}
    /\ hist = NoHist
    /\ fetcher = NoFetcher
    /\ linker = NoLinker
    /\ fncall = NoCall

\* _save_colleges_to_db(colleges_data, ...) is called, once, on a table
\* and a batch that range over all the tables and batches above
SaveCall(data) ==
    /\ pipeline.pc = "idle"
    /\ ~hist.saved
    /\ LET r == SaveColleges(colleges, data)
       IN  /\ colleges' = r.tbl
           /\ hist' = [hist EXCEPT !.pre = colleges, !.data = data, !.saved = TRUE, !.commits = r.commits]
    /\ UNCHANGED <<fetcher, linker, fncall, departments, notices, remote, pages, task, pipeline, requests>>

NextSave == \E data \in SeqsUpTo(CollegeInputs, MaxBatch) : SaveCall(data)

SpecSave == InitSave /\ [][NextSave]_vars

-----------------------------------------------------------------------------
(* The harvest of one pair, run again and again: run_harvest(sub_unit,     *)
(* board_type) on the academic board of the hard-coded department, against *)
(* a listing that changes between harvests                                 *)

BoardDept == 1
BoardType == "academic"
BoardUrl == "ai_academic"

InitBoard ==
    /\ colleges = <<MiscCollege>>
    /\ departments = <<AiDept(1)>>
    /\ notices = EmptyBag
    /\ remote = [u \in ListingUrls |-> EmptyListing]
    /\ pages = NoPages
    /\ task = [t \in Tasks |-> IdleTask]
    /\ pipeline = IdlePipeline
    /\ requests = {}
    /\ hist = NoHist
    /\ fetcher = NoFetcher
    /\ linker = NoLinker
    /\ fncall = NoCall

AllIdle == \A t \in Tasks : task[t].pc = "idle"

\* the site publishes an entry: it becomes the head of the first page, the
\* oldest entry leaves the page when the page is full
Publish(u, e) ==
    /\ AllIdle
    /\ remote' = [remote EXCEPT ![u].feed = SubSeq(<<e>> \o @, 1, IF Len(@) + 1 > PageSize THEN PageSize ELSE Len(@) + 1)]
    /\ hist' = [hist EXCEPT !.ran = FALSE]
    /\ UNCHANGED <<fetcher, linker, fncall, colleges, departments, notices, pages, task, pipeline, requests>>

\* the site starts answering the JSON read differently
SetJsonMode(u, m) ==
    /\ AllIdle
    /\ m # remote[u].json
    /\ remote' = [remote EXCEPT ![u].json = m]
    /\ hist' = [hist EXCEPT !.ran = FALSE]
    /\ UNCHANGED <<fetcher, linker, fncall, colleges, departments, notices, pages, task, pipeline, requests>>

\* the site starts answering the HTML read differently
SetHtmlMode(u, m) ==
    /\ AllIdle
    /\ m # remote[u].html
    /\ remote' = [remote EXCEPT ![u].html = m]
    /\ hist' = [hist EXCEPT !.ran = FALSE]
    /\ UNCHANGED <<fetcher, linker, fncall, colleges, departments, notices, pages, task, pipeline, requests>>

\* crawl_board(dept, board_type) is called with the department row as loaded
HarvestStart(t, b) ==
    /\ task[t].pc = "idle"
    /\ t \in 1..Len(departments)
    /\ Upd(t, [IdleTask EXCEPT !.pc = "cursor", !.board = b, !.via = "direct", !.obj = departments[t]])
    /\ UNCHANGED <<fetcher, linker, fncall, colleges, departments, notices, remote, pages, pipeline, requests, hist>>

\* the call is over: returned, or left by the exception of the cursor query
HarvestEnd(t) ==
    /\ task[t].pc \in {"ret", "raised"}
    /\ hist' = [hist EXCEPT !.ran = (task[t].pc = "ret") \/ @]
    /\ Upd(t, IdleTask)
    /\ requests' = {}
    /\ pipeline' = IdlePipeline
    /\ UNCHANGED <<fetcher, linker, fncall, colleges, departments, notices, remote, pages>>

NextBoard ==
    \/ \E e \in Entries : Publish(BoardUrl, e)
    \/ \E m \in JsonModes : SetJsonMode(BoardUrl, m)
    \/ \E m \in HtmlModes : SetHtmlMode(BoardUrl, m)
    \/ HarvestStart(BoardDept, BoardType)
    \/ CrawlBoardCursor(BoardDept)
    \/ CrawlBoardCursorRaises(BoardDept)
    \/ ParseJson(BoardDept)
    \/ ParseHtml(BoardDept)
    \/ Persist(BoardDept)
    \/ HarvestEnd(BoardDept)

SpecBoard == InitBoard /\ [][NextBoard]_vars

-----------------------------------------------------------------------------
(* _create_url_template_from_link applied to a listing link                 *)

LinkKeys == {"page", "pageNo", "cat", "id"}
LinkValues == {"3", "a", ""}
LinkParams == {Param(k, v) : k \in LinkKeys, v \in LinkValues}
Links == {Link("https://law.x/notice", q, f) : q \in SeqsUpTo(LinkParams, MaxParams), f \in {"", "top"}}

InitTemplate ==
    /\ colleges = <<>>
    /\ departments = <<>>
    /\ notices = EmptyBag
    /\ remote = [u \in ListingUrls |-> EmptyListing]
    /\ pages = NoPages
    /\ task = [t \in Tasks |-> IdleTask]
    /\ pipeline = IdlePipeline
    /\ requests = {}
    /\ hist = NoHist
    /\ fetcher = NoFetcher
    /\ linker = NoLinker
    /\ \E u \in Links : fncall = [NoCall EXCEPT !.fn = "_create_url_template_from_link", !.arg = u]

TemplateCall ==
    /\ fncall.fn = "_create_url_template_from_link"
    /\ ~fncall.done
    /\ fncall' = [fncall EXCEPT !.out = CreateUrlTemplateFromLink(fncall.arg), !.done = TRUE]
    /\ UNCHANGED <<colleges, departments, notices, remote, pages, task, pipeline, requests, hist,
                   fetcher, linker>>

NextTemplate == TemplateCall

SpecTemplate == InitTemplate /\ [][NextTemplate]_vars

-----------------------------------------------------------------------------
(* process_manual_links_file over an override file                          *)

\* the lines a file may hold: the override of the law school, the same with
\* another page number, a named department, a college that is not stored,
\* two parts, four parts (a comma in the url), no url, no college name, a
\* blank line, a comment
TxtLines ==
    {LawRepLine,
     TxtLine("data", 3, "law_graduate_school", "-", LinkPage7),
     TxtLine("data", 3, "law_graduate_school", "law_department", LinkPage3),
     TxtLine("data", 3, "unknown_college", "-", LinkPage3),
     TxtLine("data", 2, "law_graduate_school", "-", NoLink),
     TxtLine("data", 4, "law_graduate_school", "-", LinkPage3),
     TxtLine("data", 3, "law_graduate_school", "-", NoLink),
     TxtLine("data", 3, "", "-", LinkPage3),
     TxtLine("blank", 1, "", "", NoLink),
     TxtLine("comment", 1, "", "", NoLink)}

\* position of the first college of this name, 0 if none
\* (filter(College.name == ...).first())
CollegeByName(tbl, name) ==
    IF \E i \in 1..Len(tbl) : tbl[i].name = name
    THEN CHOOSE i \in 1..Len(tbl) : tbl[i].name = name /\ \A j \in 1..(i - 1) : tbl[j].name # name
    ELSE 0

\* "academic" or "haksa" in the link
IsAcademicLink(link) == link.path \in {"https://law.x/haksa"}

InitManual ==
    /\ colleges \in {<<LawCollege>>, <<MiscCollege, LawCollege>>}
    /\ departments \in {<<>>, <<StaleLawDept>>}
    /\ notices = EmptyBag
    /\ remote = [u \in ListingUrls |-> EmptyListing]
    /\ pages = NoPages
    /\ task = [t \in Tasks |-> IdleTask]
    /\ pipeline = IdlePipeline
    /\ requests = {}
    /\ hist = NoHist
    /\ fetcher = NoFetcher
    /\ \/ linker = NoLinker
       \/ \E f \in SeqsUpTo(TxtLines, MaxLines) : linker = [NoLinker EXCEPT !.exists = TRUE, !.lines = f]
    /\ fncall = NoCall

\* lines 92-102: without the file the call returns; with it a session and
\* the file are opened
ManualStart ==
    /\ linker.pc = "idle"
    /\ linker' = IF linker.exists
                 THEN [linker EXCEPT !.pc = "loop", !.idx = 1, !.sess = departments]
                 ELSE [linker EXCEPT !.pc = "done"]
    /\ UNCHANGED <<colleges, departments, notices, remote, pages, task, pipeline, requests, hist,
                   fetcher, fncall>>

\* lines 103-201: one pass of the loop over the lines.  An exception leaves
\* the function through both with blocks: the session is closed without a
\* commit
ManualLine ==
    /\ linker.pc = "loop"
    /\ linker.idx <= Len(linker.lines)
    /\ LET line == linker.lines[linker.idx]
           parsed_data == ParseTxtLine(line)
           cid == CollegeByName(colleges, parsed_data.college)
           skip(what) == [linker EXCEPT !.idx = @ + 1, !.trace = Append(@, what)]
       IN  IF line.kind # "data" THEN linker' = skip("ignored")
           ELSE IF ~parsed_data.ok THEN linker' = skip("malformed")
           ELSE IF cid = 0
           THEN linker' = [skip("college_not_found") EXCEPT !.skipped = @ + 1]
           ELSE LET college_obj == colleges[cid]
                    rep == parsed_data.dept = ""
                    dept_name_to_use == IF rep THEN college_obj.name \o " (main)" ELSE parsed_data.dept
                    gen == GenerateDepartmentCodeFromTxt(college_obj.code, dept_name_to_use, parsed_data.url)
                    dept_url_to_use == IF rep THEN college_obj.url ELSE parsed_data.url.path
                    dept_type_to_use == IF rep THEN college_obj.college_type \o "_main_notice" ELSE "txt_manual"
                    what == IF rep THEN "representative" ELSE "sub_unit"
                    j == DeptIndex(linker.sess, cid, gen.code)
                    url_template == [base |-> CreateUrlTemplateFromLink(parsed_data.url), form |-> "{page}"]
                    grad_word == HasGradWord(IF rep THEN college_obj.name ELSE parsed_data.dept)
                    board == IF IsAcademicLink(parsed_data.url) THEN "academic"
                             ELSE IF grad_word THEN "grad" ELSE "undergrad"
                    row == SetTemplate(DeptRow(cid, gen.code, dept_name_to_use, dept_url_to_use,
                                               dept_type_to_use, NoTpl, NoTpl, NoTpl, NoTpl),
                                       board, url_template)
                    upd == IF j = 0 THEN row
                           ELSE [SetTemplate(linker.sess[j], board, url_template)
                                    EXCEPT !.name = dept_name_to_use, !.url = dept_url_to_use,
                                           !.dept_type = dept_type_to_use]
                IN  \* line 127 / 147: the code generator raises TypeError; line 166:
                    \* the name dept_obj is not defined, NameError unless the first
                    \* operand of the "or" is true
                    IF gen.raised \/ ~grad_word
                    THEN linker' = [linker EXCEPT !.pc = "raised", !.trace = Append(@, what)]
                    ELSE IF j = 0
                    THEN linker' = [skip(what) EXCEPT !.sess = Append(@, row), !.created = @ + 1]
                    ELSE IF linker.sess[j] # upd
                    THEN linker' = [skip(what) EXCEPT !.sess[j] = upd, !.updated = @ + 1]
                    ELSE linker' = skip(what)
    /\ UNCHANGED <<colleges, departments, notices, remote, pages, task, pipeline, requests, hist,
                   fetcher, fncall>>

\* lines 203-213: the end of the file; commit when a row was created or changed
ManualEnd ==
    /\ linker.pc = "loop"
    /\ linker.idx > Len(linker.lines)
    /\ departments' = IF linker.created > 0 \/ linker.updated > 0 THEN linker.sess ELSE departments
    /\ linker' = [linker EXCEPT !.pc = "done"]
    /\ UNCHANGED <<colleges, notices, remote, pages, task, pipeline, requests, hist, fetcher, fncall>>

NextManual ==
    \/ ManualStart
    \/ ManualLine
    \/ ManualEnd

SpecManual == InitManual /\ [][NextManual]_vars

-----------------------------------------------------------------------------
(* The fetcher used by several coroutines: fetch_text, fetch_json and       *)
(* close_global_fetcher_client in any order and interleaving                *)

InitFetcher ==
    /\ colleges = <<>>
    /\ departments = <<>>
    /\ notices = EmptyBag
    /\ remote = [u \in ListingUrls |-> EmptyListing]
    /\ pages = NoPages
    /\ task = [t \in Tasks |-> IdleTask]
    /\ pipeline = IdlePipeline
    /\ requests = {}
    /\ hist = NoHist
    /\ fetcher = NoFetcher
    /\ linker = NoLinker
    /\ fncall = NoCall

\* fetch_text(url) / fetch_json(url) up to the await of the request: the
\* instance is obtained, get_text / get_json checks the client
FetchCall(c, kind) ==
    /\ fetcher.caller[c] = "idle"
    /\ LET f == Fetch(fetcher)
       IN  fetcher' = [f EXCEPT !.caller[c] = IF f.client = "none" THEN "raised" ELSE kind]
    /\ UNCHANGED <<colleges, departments, notices, remote, pages, task, pipeline, requests, hist,
                   linker, fncall>>

\* the response, or the exception, reaches the caller
FetchReturn(c) ==
    /\ fetcher.caller[c] \in {"get_text", "get_json", "raised"}
    /\ fetcher' = [fetcher EXCEPT !.caller[c] = "idle"]
    /\ UNCHANGED <<colleges, departments, notices, remote, pages, task, pipeline, requests, hist,
                   linker, fncall>>

\* close_global_fetcher_client up to the await of the client's close(); with
\* no instance or no client it returns at once
CloseCall(c) ==
    /\ fetcher.caller[c] = "idle"
    /\ fetcher' = IF fetcher.instance /\ fetcher.client # "none"
                  THEN [fetcher EXCEPT !.caller[c] = "closing"]
                  ELSE [fetcher EXCEPT !.shut = TRUE]
    /\ UNCHANGED <<colleges, departments, notices, remote, pages, task, pipeline, requests, hist,
                   linker, fncall>>

\* close_http_client, lines 88-90: the client's close() has returned, the
\* attribute is set to None
CloseReturn(c) ==
    /\ fetcher.caller[c] = "closing"
    /\ fetcher' = [fetcher EXCEPT !.caller[c] = "idle", !.client = "none", !.shut = TRUE]
    /\ UNCHANGED <<colleges, departments, notices, remote, pages, task, pipeline, requests, hist,
                   linker, fncall>>

NextFetcher ==
    \E c \in Callers :
        \/ FetchCall(c, "get_text")
        \/ FetchCall(c, "get_json")
        \/ FetchReturn(c)
        \/ CloseCall(c)
        \/ CloseReturn(c)

SpecFetcher == InitFetcher /\ [][NextFetcher]_vars

-----------------------------------------------------------------------------
(* scheduler.main: the flags, the preparation of the database, the try      *)
(* statement around run mode and scheduler mode, and its finally block.     *)
(* fncall holds where main stands: out.pc, the mode entered (out.mode), the *)
(* way the body of the try was left (out.how), and whether the finally      *)
(* block has called close_global_fetcher_client (out.closed).  The          *)
(* coroutines of the pipeline are the callers of the fetcher.               *)

MainCall(flag) ==
    [fn |-> "main", arg |-> [flag |-> flag],
     out |-> [pc |-> "args", mode |-> "none", how |-> "none", closed |-> FALSE], done |-> FALSE]

InitMain ==
    /\ colleges = <<>>
    /\ departments = <<>>
    /\ notices = EmptyBag
    /\ remote = [u \in ListingUrls |-> EmptyListing]
    /\ pages = NoPages
    /\ task = [t \in Tasks |-> IdleTask]
    /\ pipeline = IdlePipeline
    /\ requests = {}
    /\ hist = NoHist
    /\ fetcher = NoFetcher
    /\ linker = NoLinker
    /\ \E flag \in {"init", "run", "none"} : fncall = MainCall(flag)

\* lines 160-163: --init creates the tables and returns
MainInitOnly ==
    /\ fncall.fn = "main" /\ fncall.out.pc = "args"
    /\ fncall.arg.flag = "init"
    /\ fncall' = [fncall EXCEPT !.out.pc = "exit", !.done = TRUE]
    /\ UNCHANGED <<colleges, departments, notices, remote, pages, task, pipeline, requests, hist,
                   fetcher, linker>>

\* line 167: init_db() ahead of the try statement; when it raises, main is
\* left before either mode is entered
MainInitDb(ok) ==
    /\ fncall.fn = "main" /\ fncall.out.pc = "args"
    /\ fncall.arg.flag # "init"
    /\ fncall' = IF ok THEN [fncall EXCEPT !.out.pc = "try"]
                 ELSE [fncall EXCEPT !.out.pc = "exit", !.out.how = "init_db", !.done = TRUE]
    /\ UNCHANGED <<colleges, departments, notices, remote, pages, task, pipeline, requests, hist,
                   fetcher, linker>>

\* lines 170-181: with --run the pipeline is awaited; otherwise the
\* scheduler is started with its job paused (next_run_time=None) and main
\* waits on an event that is never set
MainEnterMode ==
    /\ fncall.fn = "main" /\ fncall.out.pc = "try"
    /\ fncall' = IF fncall.arg.flag = "run"
                 THEN [fncall EXCEPT !.out.pc = "pipeline", !.out.mode = "run"]
                 ELSE [fncall EXCEPT !.out.pc = "wait", !.out.mode = "scheduler"]
    /\ UNCHANGED <<colleges, departments, notices, remote, pages, task, pipeline, requests, hist,
                   fetcher, linker>>

\* a coroutine of the pipeline fetches a page; the coroutines of a gather
\* that has raised run on until the process ends
MainFetch(c, kind) ==
    /\ fncall.fn = "main" /\ fncall.out.mode = "run" /\ ~fncall.done
    /\ FetchCall(c, kind)

MainFetchReturn(c) ==
    /\ fncall.fn = "main" /\ fncall.out.mode = "run" /\ ~fncall.done
    /\ FetchReturn(c)

\* (mutant) an interrupt that leaves main without its finally block
LeaveNoFinally(m, how) ==
    [m EXCEPT !.out.pc = IF how = "interrupt" THEN "exit" ELSE "finally", !.out.how = how,
              !.done = (how = "interrupt")]

\* lines 169-190: the return of line 174, the KeyboardInterrupt or the
\* cancellation that an interrupt raises in main, and an Exception of the
\* pipeline all pass through the finally block
Leave(m, how) == [m EXCEPT !.out.pc = "finally", !.out.how = how]

\* run_pipeline returns and main returns at line 174
MainPipelineDone ==
    /\ fncall.fn = "main" /\ fncall.out.pc = "pipeline"
    /\ \A c \in Callers : fetcher.caller[c] = "idle"
    /\ fncall' = Leave(fncall, "completed")
    /\ UNCHANGED <<colleges, departments, notices, remote, pages, task, pipeline, requests, hist,
                   fetcher, linker>>

\* run_pipeline raises an Exception, caught at line 185
MainPipelineRaises ==
    /\ fncall.fn = "main" /\ fncall.out.pc = "pipeline"
    /\ fncall' = Leave(fncall, "exception")
    /\ UNCHANGED <<colleges, departments, notices, remote, pages, task, pipeline, requests, hist,
                   fetcher, linker>>

\* the process is interrupted while main awaits the pipeline or the event
MainInterrupt ==
    /\ fncall.fn = "main" /\ fncall.out.pc \in {"pipeline", "wait"}
    /\ fncall' = Leave(fncall, "interrupt")
    /\ UNCHANGED <<colleges, departments, notices, remote, pages, task, pipeline, requests, hist,
                   fetcher, linker>>

\* line 189 with fetcher.py 103-108 and 85-93: close_global_fetcher_client
\* is called; with an instance that holds a client the client's close() is
\* awaited, otherwise there is nothing to close
MainFinally ==
    /\ fncall.fn = "main" /\ fncall.out.pc = "finally"
    /\ IF fetcher.instance /\ fetcher.client # "none"
       THEN /\ fncall' = [fncall EXCEPT !.out.pc = "closing", !.out.closed = TRUE]
            /\ fetcher' = fetcher
       ELSE /\ fncall' = [fncall EXCEPT !.out.pc = "exit", !.out.closed = TRUE, !.done = TRUE]
            /\ fetcher' = [fetcher EXCEPT !.shut = TRUE]
    /\ UNCHANGED <<colleges, departments, notices, remote, pages, task, pipeline, requests, hist, linker>>

\* the client's close() has returned, the attribute is set to None, main
\* returns and the process ends
MainCloseReturn ==
    /\ fncall.fn = "main" /\ fncall.out.pc = "closing"
    /\ fncall' = [fncall EXCEPT !.out.pc = "exit", !.done = TRUE]
    /\ fetcher' = [fetcher EXCEPT !.client = "none", !.shut = TRUE]
    /\ UNCHANGED <<colleges, departments, notices, remote, pages, task, pipeline, requests, hist, linker>>

NextMain ==
    \/ MainInitOnly
    \/ \E ok \in BOOLEAN : MainInitDb(ok)
    \/ MainEnterMode
    \/ \E c \in Callers : \E kind \in {"get_text", "get_json"} : MainFetch(c, kind)
    \/ \E c \in Callers : MainFetchReturn(c)
    \/ MainPipelineDone
    \/ MainPipelineRaises
    \/ MainInterrupt
    \/ MainFinally
    \/ MainCloseReturn

SpecMain == InitMain /\ [][NextMain]_vars

-----------------------------------------------------------------------------
(* The stop test of _parse_notice_page_content as a function of the record  *)
(* id and the cursor: a page of one record is scanned by the JSON branch    *)
(* and by the HTML branch                                                   *)

\* the characters of an id: "+" (it sorts before the digits), the digits
\* 0, 1 and 9, and a letter (it sorts after them)
OrderChars == {-1, 0, 1, 9, 10}

\* the record id is any non-empty string (str(p_item["id"]).strip(), or the
\* text of td.no); the cursor is "0" or a stored id, that is, one that was
\* newer than "0"; in the HTML page the id stands in td.no or in the link
InitOrder ==
    /\ colleges = <<>>
    /\ departments = <<>>
    /\ notices = EmptyBag
    /\ remote = [u \in ListingUrls |-> EmptyListing]
    /\ pages = NoPages
    /\ task = [t \in Tasks |-> IdleTask]
    /\ pipeline = IdlePipeline
    /\ requests = {}
    /\ hist = NoHist
    /\ fetcher = NoFetcher
    /\ linker = NoLinker
    /\ LET ids == SeqsUpTo(OrderChars, MaxIdLen) \ {<<>>}
           cursors == {IdSentinel} \cup {c \in ids : ~NotNewer(c, IdSentinel)}
       IN  \E id \in ids : \E last \in cursors : \E via \in {"no", "link"} :
               fncall = [fn |-> "_parse_notice_page_content",
                         arg |-> [id |-> id, last |-> last, via |-> via],
                         out |-> [json |-> "", html |-> ""], done |-> FALSE]

\* what the scan of a page of one record did with it
Verdict(r, id) == IF r.stop THEN "stop" ELSE IF r.posts = <<id>> THEN "kept" ELSE "skipped"

\* lines 103-130: the JSON list holds one complete item with this id
JsonScanCall ==
    /\ fncall.fn = "_parse_notice_page_content"
    /\ fncall.out.json = ""
    /\ LET id == fncall.arg.id
           r == ScanJson(<<JsonItem(Good(id))>>, 1, fncall.arg.last, <<>>)
       IN  fncall' = [fncall EXCEPT !.out.json = Verdict(r, id), !.done = fncall.out.html # ""]
    /\ UNCHANGED <<colleges, departments, notices, remote, pages, task, pipeline, requests, hist,
                   fetcher, linker>>

\* lines 162-190: the table holds one row with this id, as the text of td.no
\* or in the link, where the regular expression finds digits only
HtmlScanCall ==
    /\ fncall.fn = "_parse_notice_page_content"
    /\ fncall.out.html = ""
    /\ LET id == fncall.arg.id
           row == IF fncall.arg.via = "no"
                  THEN [no |-> id, link_id |-> <<>>, date_ok |-> TRUE]
                  ELSE [no |-> IdLabel, link_id |-> IF IsDigit(id) THEN id ELSE <<>>, date_ok |-> TRUE]
           r == ScanHtml(<<row>>, 1, fncall.arg.last, <<>>)
       IN  fncall' = [fncall EXCEPT !.out.html = Verdict(r, id), !.done = fncall.out.json # ""]
    /\ UNCHANGED <<colleges, departments, notices, remote, pages, task, pipeline, requests, hist,
                   fetcher, linker>>

NextOrder ==
    \/ JsonScanCall
    \/ HtmlScanCall

SpecOrder == InitOrder /\ [][NextOrder]_vars

-----------------------------------------------------------------------------
(* _parse_departments_from_normal_college as a function of the college URL  *)
(* and the page.  A URL is the sequence of its pieces, "/" being a piece of *)
(* its own, so that str.startswith is the prefix order of sequences.  The   *)
(* page is, per selector of selectors_to_try that matches anything, the     *)
(* anchors it matches: [name, href], a name being [text, len, kw, ex]       *)
(* (its length, whether it holds a word of DEPT_KEYWORDS, whether it holds  *)
(* a word of EXCLUDE_KEYWORDS_IN_NAME).                                     *)

MIN_EXPECTED_DEPTS == 1
MAX_EXPECTED_DEPTS == 40

StartsWith(s, p) == Len(p) <= Len(s) /\ SubSeq(s, 1, Len(p)) = p

\* url.rsplit('/', 1)[0]: what stands before the last "/"
RSplitSlash(url) ==
    IF \A i \in 1..Len(url) : url[i] # "/" THEN url
    ELSE LET k == CHOOSE i \in 1..Len(url) : url[i] = "/" /\ \A j \in (i + 1)..Len(url) : url[j] # "/"
         IN  SubSeq(url, 1, k - 1)

\* urlparse(url).netloc: the piece after "//"
Netloc(url) == IF Len(url) >= 4 /\ url[2] = "/" /\ url[3] = "/" THEN url[4] ELSE ""

\* urljoin(base, href) for an absolute href, a path from the root, and a
\* path relative to the directory of base
UrlJoin(base, href) ==
    IF href[1] \in {"https:", "http:", "mailto:"} THEN href
    ELSE IF href[1] = "/" THEN SubSeq(base, 1, 4) \o href
    ELSE IF Len(base) <= 4 THEN base \o <<"/">> \o href
    ELSE RSplitSlash(base) \o <<"/">> \o href

\* lines 168-180: the anchor is not passed over by any "continue"
PassesFilters(college_url, a) ==
    LET full_url == UrlJoin(college_url, a.href)
    IN  /\ a.name.text # "" /\ a.href # <<>> /\ a.name.len >= 2 /\ a.name.len <= 50
        /\ ~a.name.ex
        /\ a.name.kw
        /\ \/ StartsWith(full_url, RSplitSlash(college_url))
           \/ full_url[1] \in {"https:", "http:"} /\ Netloc(full_url) = Netloc(college_url)

\* lines 157-205 from selector k on: temp is temp_html_depts_candidates in
\* insertion order, found is depts_found.  The first anchor that passes the
\* filters reaches the code generator (line 182), whose exception leaves the
\* function; passed is that anchor
RECURSIVE Cascade(_, _, _, _, _)
Cascade(college_url, html_content, k, temp, found) ==
    IF k > Len(html_content)
    THEN [raised |-> FALSE, passed |-> <<>>, depts |-> IF found = <<>> THEN temp ELSE found]
    ELSE LET ok == SelectSeq(html_content[k], LAMBDA a : PassesFilters(college_url, a))
             url(a) == UrlJoin(college_url, a.href)
             fresh(i) == /\ \A c \in 1..Len(temp) : temp[c].url # url(ok[i])
                         /\ \A j \in 1..(i - 1) : url(ok[j]) # url(ok[i])
             idx == {i \in 1..Len(ok) : fresh(i)}
             added == [i \in 1..Cardinality(idx) |->
                          LET a == ok[CHOOSE j \in idx : Cardinality({m \in idx : m < j}) = i - 1]
                          IN  [name |-> a.name.text, url |-> url(a), selector_used |-> k]]
             n == Len(added)
         IN  IF ok # <<>> /\ GenerateDepartmentCode("", ok[1].name.text, "").raised
             THEN [raised |-> TRUE, passed |-> <<ok[1]>>, depts |-> <<>>]
             ELSE Cascade(college_url, html_content, k + 1, temp \o added,
                          IF MIN_EXPECTED_DEPTS <= n /\ n <= MAX_EXPECTED_DEPTS /\ n > Len(found)
                          THEN added ELSE found)

\* line 212: the candidates are returned without the selector_used field
ParseDepartmentsFromNormalCollege(college_url, html_content) ==
    LET r == Cascade(college_url, html_content, 1, <<>>, <<>>)
    IN  [r EXCEPT !.depts = [i \in 1..Len(r.depts) |-> [name |-> r.depts[i].name, url |-> r.depts[i].url]]]

\* the college URLs: with a path, and with no path component; the anchors:
\* departments in the college's directory, elsewhere on its host, on another
\* host, and links that the name filters refuse
CollegeUrls ==
    {<<"https:", "/", "/", "eng.x", "/", "college", "/", "index.do">>,
     <<"https:", "/", "/", "eng.x">>}

Anchors ==
    LET dept(t) == [text |-> t, len |-> 13, kw |-> TRUE, ex |-> FALSE]
    IN  {[name |-> dept("cs_department"), href |-> <<"cs.do">>],
         [name |-> dept("ee_department"), href |-> <<"/", "ee", "/", "index.do">>],
         [name |-> dept("law_department"), href |-> <<"https:", "/", "/", "other.y", "/", "law">>],
         [name |-> [text |-> "department_intro", len |-> 16, kw |-> TRUE, ex |-> TRUE], href |-> <<"intro.do">>],
         [name |-> [text |-> "sitemap_link", len |-> 12, kw |-> FALSE, ex |-> FALSE], href |-> <<"map.do">>],
         [name |-> [text |-> "d", len |-> 1, kw |-> FALSE, ex |-> FALSE], href |-> <<"d.do">>]}

InitCascade ==
    /\ colleges = <<>>
    /\ departments = <<>>
    /\ notices = EmptyBag
    /\ remote = [u \in ListingUrls |-> EmptyListing]
    /\ pages = NoPages
    /\ task = [t \in Tasks |-> IdleTask]
    /\ pipeline = IdlePipeline
    /\ requests = {}
    /\ hist = NoHist
    /\ fetcher = NoFetcher
    /\ linker = NoLinker
    /\ \E u \in CollegeUrls : \E h \in SeqsUpTo(SeqsUpTo(Anchors, MaxAnchors) \ {<<>>}, MaxSelectors) :
           fncall = [fn |-> "_parse_departments_from_normal_college",
                     arg |-> [url |-> u, html |-> h], out |-> <<>>, done |-> FALSE]

CascadeCall ==
    /\ fncall.fn = "_parse_departments_from_normal_college"
    /\ ~fncall.done
    /\ fncall' = [fncall EXCEPT !.out = ParseDepartmentsFromNormalCollege(fncall.arg.url, fncall.arg.html),
                                !.done = TRUE]
    /\ UNCHANGED <<colleges, departments, notices, remote, pages, task, pipeline, requests, hist,
                   fetcher, linker>>

NextCascade == CascadeCall

SpecCascade == InitCascade /\ [][NextCascade]_vars

-----------------------------------------------------------------------------
(* The template that the keyword search builds from the first matching      *)
(* anchor, and the listing URL that get_notice_list_url makes of it.  A     *)
(* template and a URL are [path, query, fragment] with the query as its     *)
(* key=value pairs and the fragment as its pieces of text; the placeholder  *)
(* is the text "{}" (or "{page}").                                          *)

\* departments.py 50-58: "&page={}" or "?page={}" is appended to the text
\* of the link; behind a fragment it becomes part of the fragment
ExtractNoticeUrlTemplateFromPage(link) ==
    IF link.fragment = ""
    THEN [path |-> link.path, query |-> Append(link.query, Param("page", "{}")), fragment |-> <<>>]
    ELSE [path |-> link.path, query |-> link.query,
          fragment |-> <<link.fragment, IF link.query # <<>> THEN "&page=" ELSE "?page=", "{}">>]

\* notices.py 312-321: a link that parse_qs shows to hold a page parameter
\* is used as it is, otherwise the placeholder is appended
UrlTemplateForCrawl(link) ==
    LET query_found == ParseQs(link.query, <<>>)
        asis == [path |-> link.path, query |-> link.query,
                 fragment |-> IF link.fragment = "" THEN <<>> ELSE <<link.fragment>>]
    IN  IF \E i \in 1..Len(query_found) : query_found[i].k \in {"page", "pageNo", "pageNum", "pg"}
        THEN asis
        ELSE ExtractNoticeUrlTemplateFromPage(link)

\* the key=value pairs that urlencode(dict, doseq=True) writes
RECURSIVE QueryPairs(_)
QueryPairs(dict) ==
    IF dict = <<>> THEN <<>>
    ELSE [i \in 1..Len(Head(dict).vs) |-> Param(Head(dict).k, Head(dict).vs[i])] \o QueryPairs(Tail(dict))

\* get_notice_list_url, lines 53-74, for a template that is set: the
\* placeholder is replaced by the page number; a template without one gets
\* its query parsed, page set to the number, and loses its fragment
GetNoticeListUrl(url_template, page) ==
    LET n == ToString(page)
        texts == {url_template.query[i].v : i \in 1..Len(url_template.query)}
                     \cup {url_template.fragment[i] : i \in 1..Len(url_template.fragment)}
        put(ph) == [path |-> url_template.path,
                    query |-> [i \in 1..Len(url_template.query) |->
                                  IF url_template.query[i].v = ph THEN Param(url_template.query[i].k, n)
                                  ELSE url_template.query[i]],
                    fragment |-> [i \in 1..Len(url_template.fragment) |->
                                     IF url_template.fragment[i] = ph THEN n ELSE url_template.fragment[i]]]
        query_params == ParseQs(url_template.query, <<>>)
        at == {i \in 1..Len(query_params) : query_params[i].k = "page"}
        set == IF at = {} THEN Append(query_params, [k |-> "page", vs |-> <<n>>])
               ELSE [query_params EXCEPT ![CHOOSE i \in at : TRUE].vs = <<n>>]
    IN  IF "{page}" \in texts THEN put("{page}")
        ELSE IF "{}" \in texts THEN put("{}")
        ELSE [path |-> url_template.path, query |-> QueryPairs(set), fragment |-> <<>>]

InitKeyword ==
    /\ colleges = <<>>
    /\ departments = <<>>
    /\ notices = EmptyBag
    /\ remote = [u \in ListingUrls |-> EmptyListing]
    /\ pages = NoPages
    /\ task = [t \in Tasks |-> IdleTask]
    /\ pipeline = IdlePipeline
    /\ requests = {}
    /\ hist = NoHist
    /\ fetcher = NoFetcher
    /\ linker = NoLinker
    /\ \E u \in Links : \E fn \in {"_extract_notice_url_template_from_page",
                                   "find_and_attempt_parse_board_by_keyword"} : \E n \in 1..MaxPage :
           fncall = [fn |-> fn, arg |-> [link |-> u, page |-> n],
                     out |-> [tpl |-> <<>>, url |-> <<>>], done |-> FALSE]

\* the template is built from the href of the first anchor that matches
KeywordTemplateCall ==
    /\ fncall.fn \in {"_extract_notice_url_template_from_page", "find_and_attempt_parse_board_by_keyword"}
    /\ fncall.out.tpl = <<>>
    /\ fncall' = [fncall EXCEPT !.out.tpl = IF fncall.fn = "_extract_notice_url_template_from_page"
                                            THEN ExtractNoticeUrlTemplateFromPage(fncall.arg.link)
                                            ELSE UrlTemplateForCrawl(fncall.arg.link)]
    /\ UNCHANGED <<colleges, departments, notices, remote, pages, task, pipeline, requests, hist,
                   fetcher, linker>>

\* crawl_board asks for the listing URL of the template
ListUrlCall ==
    /\ fncall.fn \in {"_extract_notice_url_template_from_page", "find_and_attempt_parse_board_by_keyword"}
    /\ fncall.out.tpl # <<>>
    /\ ~fncall.done
    /\ fncall' = [fncall EXCEPT !.out.url = GetNoticeListUrl(fncall.out.tpl, fncall.arg.page), !.done = TRUE]
    /\ UNCHANGED <<colleges, departments, notices, remote, pages, task, pipeline, requests, hist,
                   fetcher, linker>>

NextKeyword ==
    \/ KeywordTemplateCall
    \/ ListUrlCall

SpecKeyword == InitKeyword /\ [][NextKeyword]_vars

-----------------------------------------------------------------------------
(* Properties of the harvest of one pair (SpecBoard).  They are read in the *)
(* state where crawl_board has finished its insert and is about to return:  *)
(* the listing has not changed since the call began, task.pre is the table  *)
(* as the call found it and task.cursor the cursor it loaded.               *)

Harvest == task[BoardDept]
Listing == remote[BoardUrl]
HarvestDone == Harvest.pc = "ret"
StoredBefore == IdsOf(Harvest.pre, BoardDept, BoardType)
StoredNow == IdsOf(notices, BoardDept, BoardType)

\* which reader produced the records of this harvest
SourceRead == IF Listing.json = "list" THEN "json" ELSE IF Listing.html = "ok" THEN "html" ELSE "none"

\* the id the reader obtains for an entry (<<>> if it obtains none)
ObservedId(e, src) ==
    IF src = "json" THEN e.id
    ELSE IF IsDigit(HtmlRow(e).no) THEN HtmlRow(e).no ELSE HtmlRow(e).link_id

\* the entry is dropped by the reader's normalization: a missing field, an
\* id that is not numeric and not in the link, an unparseable date
FailsNormalization(e, src) ==
    \/ ~e.date_ok
    \/ src = "json" /\ ~e.jfields
    \/ src = "html" /\ ObservedId(e, src) = <<>>

\* the ids the reader sees, in page order, entries without an id left out
RECURSIVE ObservedIds(_, _)
ObservedIds(feed, src) ==
    IF feed = <<>> THEN <<>>
    ELSE (IF ObservedId(Head(feed), src) = <<>> THEN <<>> ELSE <<ObservedId(Head(feed), src)>>)
         \o ObservedIds(Tail(feed), src)

\* numeric ids, strictly decreasing: a newest-first listing
NewestFirst(ids) ==
    /\ \A i \in 1..Len(ids) : IsDigit(ids[i])
    /\ \A i \in 1..Len(ids) : \A j \in 1..Len(ids) : i < j => ToInt(ids[i]) > ToInt(ids[j])

\* the position of the first id that is not newer than the cursor
StopIndex(ids, last) ==
    IF \E i \in 1..Len(ids) : NotNewer(ids[i], last)
    THEN CHOOSE i \in 1..Len(ids) : NotNewer(ids[i], last) /\ \A j \in 1..(i - 1) : ~NotNewer(ids[j], last)
    ELSE Len(ids) + 1

\* a listing every entry of which both readers accept, read without a fault
CleanRun ==
    /\ HarvestDone
    /\ SourceRead # "none"
    /\ \A i \in 1..Len(Listing.feed) :
          Listing.feed[i].jdict /\ ~FailsNormalization(Listing.feed[i], SourceRead)
    /\ NewestFirst(ObservedIds(Listing.feed, SourceRead))

\* C1: after the harvest of a pair with cursor c over a newest-first listing
\* of well-formed records, the pair's stored ids are the ids stored before
\* plus exactly the ids listed ahead of the first id not newer than c, and
\* only page 1 was requested.
C1_IncrementalStop ==
    CleanRun =>
        LET ids == ObservedIds(Listing.feed, SourceRead)
            k == StopIndex(ids, Harvest.cursor)
        IN  /\ StoredNow = StoredBefore \cup {ids[i] : i \in 1..(k - 1)}
            /\ \A r \in requests : r.page = 1

\* C2: when the pair already has numeric ids stored and the newest-first
\* listing shows records whose ids are greater than every stored id, all of
\* them are stored after the harvest.
C2_NewNeverMissed ==
    (CleanRun /\ StoredBefore # {} /\ \A x \in StoredBefore : IsDigit(x)) =>
        LET ids == ObservedIds(Listing.feed, SourceRead)
        IN  \A i \in 1..Len(ids) :
                (\A x \in StoredBefore : ToInt(ids[i]) > ToInt(x)) => ids[i] \in StoredNow

\* the best-effort order of section 4.4: numeric when both parse, string order otherwise
BestEffortLeq(x, y) ==
    IF IsDigit(x) /\ IsDigit(y) THEN ToInt(x) <= ToInt(y) ELSE StrLeq(x, y)

CursorLoaded == Harvest.pc \in {"json", "html", "persist", "ret"}

\* C4: the cursor loaded by the harvest is the sentinel "0" when the pair
\* has no stored record, and otherwise a stored id that no stored id exceeds
\* in the best-effort order.
C4_CursorIsBestEffortMax ==
    CursorLoaded =>
        IF StoredBefore = {} THEN Harvest.cursor = IdSentinel
        ELSE /\ Harvest.cursor \in StoredBefore
             /\ \A x \in StoredBefore : BestEffortLeq(x, Harvest.cursor)

\* C3: a harvest that follows a completed harvest of the same pair, the
\* listing and its answers unchanged in between, leaves the notice table as
\* it found it, and no row occurs twice.
C3_HarvestIdempotent ==
    (HarvestDone /\ hist.ran) => (notices = Harvest.pre /\ UniqueNotices(notices))

\* the second harvest collected a batch and the table rejected it
C3_Witness ==
    HarvestDone /\ hist.ran /\ Harvest.posts # <<>> /\ StoredNow # {}

\* C6: when the JSON read fails (transport, decode or shape), the HTML read
\* of the same URL is made, and if it shows well-formed newest-first rows,
\* the rows newer than the cursor are exactly what the harvest adds.
C6_FallbackPersists ==
    (HarvestDone /\ Listing.json # "list") =>
        /\ [url |-> BoardUrl, page |-> 1, kind |-> "html"] \in requests
        /\ CleanRun =>
              LET ids == ObservedIds(Listing.feed, "html")
              IN  StoredNow = StoredBefore \cup {ids[i] : i \in {j \in 1..Len(ids) : ~NotNewer(ids[j], Harvest.cursor)}}

\* C7: when exactly one entry of a newest-first page fails normalization,
\* every other entry that is newer than the cursor is stored after the harvest.
C7_DroppedRecordResilience ==
    (/\ HarvestDone
     /\ SourceRead # "none"
     /\ \A i \in 1..Len(Listing.feed) : Listing.feed[i].jdict
     /\ Cardinality({i \in 1..Len(Listing.feed) : FailsNormalization(Listing.feed[i], SourceRead)}) = 1
     /\ NewestFirst(ObservedIds(Listing.feed, SourceRead)))
    => \A i \in 1..Len(Listing.feed) :
          (/\ ~FailsNormalization(Listing.feed[i], SourceRead)
           /\ ~NotNewer(ObservedId(Listing.feed[i], SourceRead), Harvest.cursor))
          => ObservedId(Listing.feed[i], SourceRead) \in StoredNow

-----------------------------------------------------------------------------
(* Properties of the runs of the pipeline (SpecPipeline) *)

\* C5: in every reachable state, whatever harvests have run and however the
\* tasks of a run have interleaved, no two rows of the notice table have the
\* same (dept_id, board, post_id).
C5_UniqueNotices == UniqueNotices(notices)

\* a batch holding a row that is already stored has just been refused while
\* the task of the other department is in the middle of a harvest
C5_Witness ==
    \E t \in Tasks : \E u \in Tasks :
        /\ t # u
        /\ task[t].pc = "ret" /\ task[t].posts # <<>> /\ task[t].inserted = 0
        /\ task[u].pc \in {"json", "html", "persist"}
        /\ notices # EmptyBag

RunOver == pipeline.pc \in {"done", "failed"} /\ Settled

\* C8: when a run is over, every pair of a loaded department and a board it
\* has a template for has been harvested, unless the failure was raised by
\* the harvest of that very pair.
C8_FailureIsolation ==
    RunOver =>
        \A t \in 1..Len(departments) : \A b \in {"academic", "undergrad", "grad"} :
            TemplateOf(departments[t], b) # NoTpl => <<t, b>> \in hist.harvested \cup hist.raised

-----------------------------------------------------------------------------
(* Properties of the college save (SpecSave) and of discovery (SpecDiscovery) *)

CodesOf(tbl) == {tbl[i].code : i \in 1..Len(tbl)}

\* the last row of the batch that carries this code
LastWithCode(data, code) ==
    data[CHOOSE k \in 1..Len(data) :
            data[k].code = code /\ \A m \in (k + 1)..Len(data) : data[m].code # code]

\* C9: after a save, a discovered college whose code was already in the
\* table has its row, at the same place, carrying the discovered name, url
\* and kind, and the table has grown by exactly one row per discovered code
\* that was not in it; rows of other codes are as they were.
C9_InstitutionUpsert ==
    hist.saved =>
        /\ Len(colleges) = Len(hist.pre) + Cardinality(CodesOf(hist.data) \ CodesOf(hist.pre))
        /\ \A i \in 1..Len(hist.pre) :
              IF hist.pre[i].code \in CodesOf(hist.data)
              THEN colleges[i] = LastWithCode(hist.data, hist.pre[i].code)
              ELSE colleges[i] = hist.pre[i]
        /\ \A c \in CodesOf(hist.data) :
              Cardinality({i \in 1..Len(colleges) : colleges[i].code = c}) = 1
        /\ \A i \in 1..Len(colleges) :
              colleges[i].code \in CodesOf(hist.data) => colleges[i] = LastWithCode(hist.data, colleges[i].code)

\* one college was saved whose code was stored under another name: the row
\* now carries the new name and the table has as many rows as before
C9_Witness ==
    /\ hist.saved
    /\ Len(hist.data) = 1
    /\ CollegeIndex(hist.pre, hist.data[1].code) # 0
    /\ hist.pre[CollegeIndex(hist.pre, hist.data[1].code)].name # hist.data[1].name
    /\ colleges[CollegeIndex(hist.pre, hist.data[1].code)].name = hist.data[1].name
    /\ Len(colleges) = Len(hist.pre)

SeenColleges ==
    (IF pages.root = "links" THEN {[name |-> "college", url |-> "college_home"]} ELSE {})
    \cup (IF pages.plusgrad = "links" THEN {[name |-> "law_graduate_school", url |-> "law_home"]} ELSE {})
    \cup (IF pages.grad = "match" THEN {[name |-> "heading", url |-> "grad_info"]} ELSE {})

\* the codes under which a table holds a college of this name and url
CodesFor(tbl, e) == {tbl[i].code : i \in {j \in 1..Len(tbl) : tbl[j].name = e.name /\ tbl[j].url = e.url}}

\* C11: when the discovery stages of a run are over, every college the pages
\* showed is stored under a code generated from its name and url, and in a
\* run that follows a completed run over the same pages that code is the one
\* the earlier run stored.
C11_DeterministicCodes ==
    DiscoveryOver =>
        \A e \in SeenColleges :
            /\ CodesFor(colleges, e) # {}
            /\ hist.fresh => CodesFor(colleges, e) = CodesFor(hist.prev.colleges, e)

-----------------------------------------------------------------------------
(* Properties of the template built from a link (SpecTemplate) *)

\* the parameters of the link that are not pagination parameters, as written
NonPagination(link) == SelectSeq(link.query, LAMBDA e : e.k \notin CommonPageParams)

\* C12: the template built from a link is the link's text up to the query,
\* followed by every parameter that is not a pagination parameter, in the
\* order written, and then by one page={page}; no pagination parameter of
\* the link and no fragment is in it.
C12_TemplateFromLink ==
    (fncall.fn = "_create_url_template_from_link" /\ fncall.done) =>
        LET kept == NonPagination(fncall.arg)
            texts == [i \in 1..Len(kept) |-> kept[i].k \o "=" \o kept[i].v]
        IN  fncall.out = fncall.arg.path \o "?" \o Join(Append(texts, "page={page}"), "&")

-----------------------------------------------------------------------------
(* Properties of the manual override (SpecManual, SpecPipeline) *)

\* the lines of the file that name a stored college, have three parts with
\* a url, and a dash as the second
RepLines ==
    {i \in 1..Len(linker.lines) :
        LET l == linker.lines[i]
        IN  /\ l.kind = "data" /\ l.n = 3 /\ l.dept = "-" /\ l.url # NoLink
            /\ CollegeByName(colleges, l.college) # 0}

\* a department of the college that line i names, called after the college
\* as its representative, holds the template of the line's link for the
\* academic or the undergraduate board
RepTemplateStored(i) ==
    LET l == linker.lines[i]
        cid == CollegeByName(colleges, l.college)
    IN  \E j \in 1..Len(departments) :
            /\ departments[j].college_id = cid
            /\ departments[j].name = colleges[cid].name \o " (main)"
            /\ \E b \in {"academic", "undergrad"} :
                  TemplateOf(departments[j], b).base = l.url.path \o "?page={page}"

\* C13: when process_manual_links_file is over on a file that holds lines
\* "college,-,url" for stored colleges, it has returned without an error and
\* for each such line the representative department of the college holds
\* the template url-without-page ?page={page}, whatever page the line gave.
C13_ManualOverride ==
    (linker.pc \in {"done", "raised"} /\ RepLines # {}) =>
        /\ linker.pc = "done"
        /\ \A i \in RepLines : RepTemplateStored(i)

\* C14: when a run is complete, for every line of the override file that
\* names a stored college, a department of that college holds the template
\* built from the line's link for the academic or the undergraduate board,
\* and the harvest of the run has requested that listing.
C14_OverrideAuthoritative ==
    (pipeline.pc = "done" /\ Settled) =>
        \A i \in RepLines :
            LET l == linker.lines[i]
                cid == CollegeByName(colleges, l.college)
                tpl == CreateUrlTemplateFromLink(l.url)
            IN  /\ \E j \in 1..Len(departments) :
                      /\ departments[j].college_id = cid
                      /\ \E b \in {"academic", "undergrad"} : TemplateOf(departments[j], b).base = tpl
                /\ \E r \in requests : r.url = tpl

\* C15: when crawl_board has returned from a pair for which the department
\* has no template, it has issued no listing request, collected and stored
\* nothing, and logged no error.
C15_MissingTemplateSkip ==
    \A t \in Tasks :
        (task[t].pc = "ret" /\ TemplateOf(task[t].obj, task[t].board) = NoTpl) =>
            /\ task[t].url = NoUrl
            /\ \A r \in requests : r.url # ""
            /\ task[t].posts = <<>> /\ task[t].inserted = 0 /\ notices = task[t].pre
            /\ task[t].errors = {}

-----------------------------------------------------------------------------
(* Properties of the page walk (SpecBoard) *)

\* the first page gave at least one record and no record on it hit the cursor
AllNewPage == Harvest.posts # <<>> /\ ~Harvest.stop

\* C18 (as stated): when page 1 yields at least one record and every record
\* on it is newer than the cursor, page 2 is requested before the harvest
\* goes on to PERSIST and DONE.
C18_MultiPageWalk ==
    (Harvest.pc \in {"persist", "ret"} /\ AllNewPage) => \E r \in requests : r.page = 2

\* C18 (amended): the harvest of a pair requests page 1 of the listing and
\* no other page, whatever page 1 yields: once page 1 is read (JSON, and HTML
\* when the JSON read fails) the walk is over, the batch is persisted and the
\* call returns.
C18_SinglePageWalk ==
    /\ \A r \in requests : r.page = 1 /\ r.url = BoardUrl
    /\ Harvest.pc \in {"html", "persist", "ret"} /\ Harvest.url # NoUrl =>
           [url |-> BoardUrl, page |-> 1, kind |-> "json"] \in requests
    /\ Harvest.pc = "ret" /\ Harvest.posts # <<>> =>
           \/ Harvest.inserted = Len(Harvest.posts)
           \/ Harvest.inserted = 0 /\ notices = Harvest.pre

\* a full first page of records, all newer than the cursor, was read and
\* stored, and the harvest returned after that one page
C18_Witness ==
    /\ HarvestDone /\ AllNewPage
    /\ Len(Harvest.posts) = PageSize /\ Harvest.inserted = PageSize
    /\ requests = {[url |-> BoardUrl, page |-> 1, kind |-> "json"]}

-----------------------------------------------------------------------------
(* Properties of the stop test (SpecOrder) *)

OrderCall == fncall.fn = "_parse_notice_page_content"

\* int(s) succeeds: digits, with or without a sign in front (Python)
ParsesInt(s) == IsDigit(s) \/ (Len(s) > 1 /\ Head(s) = -1 /\ IsDigit(Tail(s)))
IntOf(s) == IF Head(s) = -1 THEN ToInt(Tail(s)) ELSE ToInt(s)

\* C19 (as stated): the JSON path judges the id not newer than the cursor
\* exactly when both parse as integers and int(id) <= int(cursor), or one of
\* them does not parse and id <= cursor as strings.
C19_IntegerParseOrder ==
    LET id == fncall.arg.id
        last == fncall.arg.last
        rule == IF ParsesInt(id) /\ ParsesInt(last) THEN IntOf(id) <= IntOf(last) ELSE StrLeq(id, last)
    IN  (OrderCall /\ fncall.out.json # "") => (fncall.out.json = "stop" <=> rule)

\* C19 (amended): the id is judged not newer than the cursor exactly when
\* both are digit strings and int(id) <= int(cursor), or one of them is not
\* a digit string and id <= cursor in string order; the HTML path takes only
\* digit strings as ids and judges them as the JSON path does, and a record
\* that is not stopped at is kept.
C19_BestEffortOrder ==
    LET id == fncall.arg.id
        last == fncall.arg.last
        rule == \/ IsDigit(id) /\ IsDigit(last) /\ ToInt(id) <= ToInt(last)
                \/ ~(IsDigit(id) /\ IsDigit(last)) /\ StrLeq(id, last)
    IN  OrderCall =>
            /\ fncall.out.json # "" => fncall.out.json = IF rule THEN "stop" ELSE "kept"
            /\ fncall.out.html # "" =>
                   fncall.out.html = IF ~IsDigit(id) THEN "skipped" ELSE IF rule THEN "stop" ELSE "kept"
            /\ fncall.done /\ IsDigit(id) => fncall.out.html = fncall.out.json

\* both paths have judged "10" against the cursor "9": newer, by the integer
\* comparison (in string order it would not be), the id read from the link
C19_Witness ==
    /\ OrderCall /\ fncall.done
    /\ fncall.arg = [id |-> Id10, last |-> Id9, via |-> "link"]
    /\ fncall.out = [json |-> "kept", html |-> "kept"]

-----------------------------------------------------------------------------
(* Properties of the batch of one listing page (SpecBoard) *)

\* C28: the batch that the extractor returns for a listing page holds no two
\* records with the same post_id, and it is the output of one reader alone:
\* what the JSON scan or the HTML scan of that page appends to an empty
\* batch, never records of the one followed by records of the other.
C28_BatchOfOneReader ==
    \A t \in Tasks : task[t].pc = "persist" =>
        LET page == remote[task[t].url.base]
            posts == task[t].posts
        IN  /\ \A i, j \in 1..Len(posts) : posts[i] = posts[j] => i = j
            /\ posts \in {ScanJson(MapSeq(JsonItem, page.feed), 1, task[t].cursor, <<>>).posts,
                          ScanHtml(MapSeq(HtmlRow, page.feed), 1, task[t].cursor, <<>>).posts}

-----------------------------------------------------------------------------
(* Properties of the write of a harvest (SpecPipeline) *)

\* the rows of the batch that the harvest of task t has accumulated
Batch(t) == RowsOf(t, task[t].board, task[t].posts)

\* C20: the notice table changes only in the one write that a harvest makes
\* after its scan is over, and that write is all or nothing: either every row
\* of the batch is added and the count reported is the size of the batch, or
\* the table is left as it was and the count is 0; the harvest then returns.
C20_AtomicBatch ==
    [][/\ notices' # notices =>
              \E t \in Tasks : task[t].pc = "persist" /\ task'[t].pc = "ret"
       /\ \A t \in Tasks :
              /\ (task[t].pc # "persist" /\ task'[t].pc = "persist") =>
                     (task[t].pc \in {"json", "html"} /\ notices' = notices /\ task'[t].inserted = 0)
              /\ (task[t].pc = "persist" /\ task'[t].pc = "ret") =>
                     \/ /\ notices' = notices (+) SeqToBag(Batch(t))
                        /\ task'[t].inserted = Len(task[t].posts)
                     \/ /\ notices' = notices
                        /\ task'[t].inserted = 0
                        /\ task[t].posts # <<>> => "db_save" \in task'[t].errors
              /\ (task[t].pc = "persist" /\ task'[t].pc \notin {"persist", "ret"}) =>
                     (task'[t].pc = "cancelled" /\ notices' = notices)]_vars

\* one harvest has stored its whole batch, and the batch of two rows of
\* another harvest has been refused: none of its rows is in the table
C20_Witness ==
    \E t \in Tasks : \E u \in Tasks :
        /\ task[t].pc = "ret" /\ Len(task[t].posts) = 2 /\ task[t].inserted = 0
        /\ \A i \in 1..2 : ~BagIn(Batch(t)[i], notices)
        /\ task[u].pc = "ret" /\ task[u].inserted = Len(task[u].posts) /\ task[u].inserted > 0
        /\ \A i \in 1..Len(task[u].posts) : BagIn(Batch(u)[i], notices)

\* C17: when process_manual_links_file has ended, every blank line and
\* comment was passed over, every line that does not parse and every line of
\* a college that is not stored was skipped, every line of three parts with
\* "-" as the second was taken as the college's representative listing, the
\* lines that follow a skipped line were all processed, and a file of
\* skipped lines only changed no department.
C17_ManualParsing ==
    LET Skips == {"ignored", "malformed", "college_not_found"}
        kind(line) ==
            IF line.kind # "data" THEN "ignored"
            ELSE IF line.n # 3 \/ line.college = "" \/ line.url = NoLink THEN "malformed"
            ELSE IF \A i \in 1..Len(colleges) : colleges[i].name # line.college THEN "college_not_found"
            ELSE IF line.dept = "-" THEN "representative" ELSE "sub_unit"
    IN  linker.pc \in {"done", "raised"} =>
            /\ \A i \in 1..Len(linker.trace) : linker.trace[i] = kind(linker.lines[i])
            /\ (\E i \in 1..Len(linker.trace) : linker.trace[i] \in Skips) =>
                   Len(linker.trace) = Len(linker.lines)
            /\ (\A i \in 1..Len(linker.lines) : kind(linker.lines[i]) \in Skips) =>
                   /\ linker.pc = "done"
                   /\ linker.exists => departments = linker.sess
                   /\ linker.created = 0 /\ linker.updated = 0

-----------------------------------------------------------------------------
(* Properties of the fan-out of a run (SpecPipeline) *)

\* the pairs for which crawl_board has been called and has ended in this run
Invoked == hist.harvested \cup hist.raised

\* C21: in one run, crawl_board is called exactly once for every pair of a
\* loaded department and a board whose template is set on its row: never a
\* second time (by the same task or by another), and when the run is over
\* every such pair has had its call.
C21_OneHarvestPerPair ==
    /\ [][\A t \in Tasks :
              (task[t].pc # "cursor" /\ task'[t].pc = "cursor") =>
                  /\ <<t, task'[t].board>> \notin Invoked
                  /\ \A u \in Tasks \ {t} : task[u].obj # task'[t].obj \/ task[u].pc \in Terminal]_vars
    /\ [](RunOver =>
              \A t \in 1..Len(departments) : \A b \in Boards :
                  TemplateOf(departments[t], b) # NoTpl => <<t, b>> \in Invoked)

\* C22: a harvest task is started, and is at work, only when the college
\* discovery and the department discovery of every loaded college are over;
\* the colleges are taken one after the other, each in one uninterrupted
\* turn with no task alive, and the tables change in the discovery stages
\* only.
C22_StageOrdering ==
    /\ [](\A t \in Tasks :
              task[t].pc \notin Terminal =>
                  (pipeline.pc \in {"notices", "failed"} /\ pipeline.idx > Len(colleges)))
    /\ [][/\ (\E t \in Tasks : task[t].pc = "idle" /\ task'[t].pc # "idle") =>
                 (pipeline.pc = "depts" /\ pipeline.idx > Len(colleges) /\ pipeline'.pc = "notices")
          /\ colleges' # colleges => pipeline.pc \in {"normal", "gradpage", "plusgrad", "ai"}
          /\ departments' # departments => pipeline.pc \in {"ai", "depts"}
          /\ (pipeline.pc = "depts" /\ pipeline'.pc = "depts") =>
                 /\ pipeline'.idx = pipeline.idx + 1
                 /\ \A t \in Tasks : task[t] = IdleTask /\ task'[t] = IdleTask]_vars

\* the departments of two colleges have been discovered, and the harvests of
\* two departments are both between their first request and their write
C22_Witness ==
    /\ Len(colleges) >= 2 /\ pipeline.pc = "notices"
    /\ \E t \in Tasks : \E u \in Tasks :
           /\ t # u
           /\ task[t].pc \in {"json", "html"} /\ task[u].pc \in {"json", "html"}

-----------------------------------------------------------------------------
(* Properties of the selector cascade (SpecCascade) *)

CascadeDone == fncall.fn = "_parse_departments_from_normal_college" /\ fncall.done

\* the valid candidates of selector k of the page: [name, url]
ValidOf(k) ==
    LET ok == SelectSeq(fncall.arg.html[k], LAMBDA a : PassesFilters(fncall.arg.url, a))
    IN  [i \in 1..Len(ok) |-> [name |-> ok[i].name.text, url |-> UrlJoin(fncall.arg.url, ok[i].href)]]

\* C23: the function returns the valid candidates of the first selector, in
\* priority order, whose count of valid candidates lies in
\* [MIN_EXPECTED_DEPTS, MAX_EXPECTED_DEPTS]; when no selector's count does,
\* it returns the largest candidate set of a single selector.
C23_CascadeAcceptance ==
    LET sel == 1..Len(fncall.arg.html)
        inb == {k \in sel : MIN_EXPECTED_DEPTS <= Len(ValidOf(k)) /\ Len(ValidOf(k)) <= MAX_EXPECTED_DEPTS}
        first == CHOOSE k \in inb : \A j \in inb : k <= j
        largest == CHOOSE k \in sel : \A j \in sel : Len(ValidOf(j)) <= Len(ValidOf(k))
    IN  CascadeDone =>
            /\ ~fncall.out.raised
            /\ fncall.out.depts = IF inb # {} THEN ValidOf(first)
                                  ELSE IF sel # {} THEN ValidOf(largest) ELSE <<>>

-----------------------------------------------------------------------------
(* Properties of the keyword-discovered template (SpecKeyword) *)

\* C25: the template built from the matching anchor's link holds none of the
\* link's pagination parameters and exactly one page placeholder, as a
\* parameter of its query; the URL made of it for page n holds exactly one
\* pagination parameter, and its value is n.
C25_KeywordTemplate ==
    LET tpl == fncall.out.tpl
        url == fncall.out.url
        holders == {i \in 1..Len(tpl.query) : tpl.query[i].v \in {"{}", "{page}"}}
        paging == {i \in 1..Len(url.query) : url.query[i].k \in CommonPageParams}
    IN  (fncall.fn \in {"_extract_notice_url_template_from_page", "find_and_attempt_parse_board_by_keyword"}
             /\ fncall.done) =>
            /\ Cardinality(holders) = 1
            /\ \A i \in 1..Len(tpl.query) : tpl.query[i].k \in CommonPageParams => i \in holders
            /\ Cardinality(paging) = 1
            /\ \A i \in paging : url.query[i].v = ToString(fncall.arg.page)

-----------------------------------------------------------------------------
(* Properties of the keyword search of a board (SpecPipeline) *)

\* C29: when find_and_attempt_parse_board_by_keyword returns - no link was
\* found, the harvest of the found board returned, or it raised - the four
\* template fields of the department object hold the values they held when
\* the function was called.
C29_KeywordLeavesObject ==
    [][\A t \in Tasks :
           (task[t].via = "kw" /\ task[t].pc \in {"kwfetch", "ret", "raised"} /\ task'[t].pc = "stage") =>
               LET before == IF task[t].pc = "kwfetch" THEN task[t].obj
                             ELSE SetTemplate(task[t].obj, task[t].board, task[t].saved)
               IN  \A b \in Boards : TemplateOf(task'[t].obj, b) = TemplateOf(before, b)]_vars

-----------------------------------------------------------------------------
(* Properties of the department upsert (SpecDiscovery) *)

\* C30: when crawl_departments finds a department that is stored already and
\* resolves no template for a board, a template stored for that board stays
\* as it is.
C30_StoredTemplateKept ==
    [][(pipeline.pc = "depts" /\ pipeline.idx <= Len(colleges)) =>
           LET c == colleges[pipeline.idx]
               found == DeptsToSave(c, pipeline.idx, PageOf(c.url))
           IN  \A i \in 1..Len(found) : \A b \in Boards :
                   LET j == DeptIndex(departments, found[i].college_id, found[i].code)
                   IN  (j # 0 /\ TemplateOf(departments[j], b) # NoTpl /\ TemplateOf(found[i], b) = NoTpl) =>
                           TemplateOf(departments'[j], b) = TemplateOf(departments[j], b)]_vars

-----------------------------------------------------------------------------
(* Properties of the department discovery with failing commits (SpecScoping) *)

\* the call of crawl_departments for the college of the loop that this step
\* takes meets a failure: the page cannot be fetched, the parser raises, or
\* the commit raises
DiscoveryFailure ==
    /\ pipeline.pc = "depts"
    /\ pipeline.idx <= Len(colleges)
    /\ pipeline' # pipeline
    /\ LET c == colleges[pipeline.idx]
       IN  \/ c.college_type \in FetchedTypes /\ ~PageOf(c.url).ok
           \/ /\ c.college_type \in {"grad_page_college", "normal_college"} \/ c.url = "grad_info"
              /\ GenerateDepartmentCode(c.code, "", "").raised
           \/ pipeline'.faults # pipeline.faults

\* C26: a call of crawl_departments that meets a fetch, parse or commit
\* error leaves the college table and every department row of the other
\* colleges (all rows committed earlier in the run are among them) as they
\* were, and the loop of run_pipeline goes on with the next college.
C26_CommitScoping ==
    [][DiscoveryFailure =>
           /\ colleges' = colleges
           /\ Len(departments') >= Len(departments)
           /\ \A j \in 1..Len(departments) :
                  departments[j].college_id # pipeline.idx => departments'[j] = departments[j]
           /\ pipeline'.pc = "depts"
           /\ pipeline'.idx = pipeline.idx + 1]_vars

\* the commit for one college has failed, the hard-coded department saved
\* before the loop is stored, and the loop has colleges left to go over
C26_Witness ==
    /\ pipeline.pc = "depts"
    /\ pipeline.faults = 1
    /\ pipeline.idx > 1
    /\ pipeline.idx <= Len(colleges)
    /\ \E j \in 1..Len(departments) : departments[j].dept_type = "ai_hardcoded"

-----------------------------------------------------------------------------
(* Properties of the entry point (SpecMain) *)

\* C27: when main has ended after entering run mode or scheduler mode - the
\* cycle completed, the process was interrupted, or the pipeline raised an
\* exception - close_global_fetcher_client has been called.
C27_FetcherRelease ==
    (fncall.fn = "main" /\ fncall.done /\ fncall.out.mode # "none") =>
        /\ fncall.out.how \in {"completed", "interrupt", "exception"}
        /\ fncall.out.closed

\* run mode was interrupted after the pipeline had fetched a page, and the
\* client that this fetch built is closed
C27_Witness ==
    /\ fncall.fn = "main" /\ fncall.done
    /\ fncall.out.mode = "run" /\ fncall.out.how = "interrupt"
    /\ fetcher.built = 1 /\ fetcher.shut

-----------------------------------------------------------------------------
(* Properties of the fetcher (SpecFetcher) *)

\* C16: at most one pooled client is ever constructed; before the first
\* fetch there is no instance and no client; and once a shutdown has
\* completed no client is held, through later fetches and shutdowns.
C16_SingleLazyClient ==
    /\ fetcher.built <= 1
    /\ ~fetcher.fetched => (~fetcher.instance /\ fetcher.client = "none" /\ fetcher.built = 0)
    /\ fetcher.shut => fetcher.client = "none"

\* the client was built by a fetch and shut down, a later fetch found it
\* gone and built no other, and a second shutdown is under way elsewhere
C16_Witness ==
    /\ fetcher.built = 1 /\ fetcher.shut /\ fetcher.client = "none"
    /\ \E c \in Callers : fetcher.caller[c] = "raised"
    /\ \E c \in Callers : fetcher.caller[c] = "closing"

====
